---- MODULE Spec2Model ----
(***************************************************************************)
(* Webhook ingestion of the TrafficWork framework: the POST                *)
(* /webhook/stripe route and StripeService.handleWebhook with its five     *)
(* type-specific handlers, over the WebhookEvent, User and Payment tables. *)
(* Every await of the source (a database query or a Stripe SDK call) is a  *)
(* suspension point, so each action runs one request from one await to the *)
(* next; requests interleave at those points.  A second specification,     *)
(* ApiSpec, covers the client routes and KeitaroService (conversion        *)
(* tracking, postbacks and the retry of failed postbacks) over the User    *)
(* and TrackingEvent tables.                                               *)
(***************************************************************************)
EXTENDS Integers, Sequences, FiniteSets, TLC

\* ------------------------------------------------------------------ bounds
MaxReq == 2          \* webhook deliveries in one behaviour
MaxCalls == 2        \* client requests and tracking calls in one behaviour

NULL == "null"
NoDate == 0          \* a DateTime? column holding null; real dates are positive

Reqs == 1..MaxReq
Calls == 1..MaxCalls
ExistingUsers == {"u1"}

\* ------------------------------------------------- upstream Stripe objects
\* Subscription objects as the processor holds them (id, status, first
\* price id, current_period_end in seconds, metadata.userId,
\* metadata.keitaroSubId).  "u0" names a user with no row in the database.
StripeSubs ==
  [ sub_1 |-> [id |-> "sub_1", status |-> "active", price |-> "price_monthly",
               current_period_end |-> 5, userId |-> "u1", keitaroSubId |-> "click_a"],
    sub_2 |-> [id |-> "sub_2", status |-> "trialing", price |-> "price_annual",
               current_period_end |-> 9, userId |-> "u1", keitaroSubId |-> NULL],
    sub_n |-> [id |-> "sub_n", status |-> "active", price |-> "price_monthly",
               current_period_end |-> 5, userId |-> NULL, keitaroSubId |-> NULL],
    sub_g |-> [id |-> "sub_g", status |-> "active", price |-> "price_monthly",
               current_period_end |-> 5, userId |-> "u0", keitaroSubId |-> NULL] ]

AnnualPriceId == "price_annual"

\* --------------------------------------------------------- event payloads
HandledTypes ==
  {"checkout.session.completed", "customer.subscription.created",
   "customer.subscription.updated", "customer.subscription.deleted",
   "invoice.payment_succeeded", "invoice.payment_failed"}

UnhandledType == "customer.created"

\* data.object of an event, reduced to the fields the handlers read:
\* userId is session.metadata.userId, sub is session.subscription /
\* invoice.subscription / the subscription object itself, pi is
\* payment_intent, amount is amount_total / amount_paid, keitaroSubId is
\* session.metadata.keitaroSubId.
Payload(t, u, s, p, a, k) ==
  [type |-> t, userId |-> u, sub |-> s, pi |-> p, amount |-> a, keitaroSubId |-> k]

\* The events the processor sends in one behaviour: event id -> data.object.
\* One event id always carries the same type and payload.
CheckoutEvents ==
  [ evt_co   |-> Payload("checkout.session.completed", "u1", "sub_2", "pi_1", 999, "click_a"),
    evt_co_n |-> Payload("checkout.session.completed", NULL, "sub_2", "pi_1", 999, NULL),
    evt_ip   |-> Payload("invoice.payment_succeeded", NULL, "sub_1", "pi_1", 999, NULL),
    evt_x    |-> Payload(UnhandledType, NULL, NULL, NULL, 0, NULL) ]

SubscriptionEvents ==
  [ evt_sc   |-> Payload("customer.subscription.created", NULL, "sub_2", NULL, 0, NULL),
    evt_su   |-> Payload("customer.subscription.updated", NULL, "sub_1", NULL, 0, NULL),
    evt_sd   |-> Payload("customer.subscription.deleted", NULL, "sub_1", NULL, 0, NULL),
    evt_sd_g |-> Payload("customer.subscription.deleted", NULL, "sub_g", NULL, 0, NULL),
    evt_if   |-> Payload("invoice.payment_failed", NULL, "sub_1", NULL, 0, NULL) ]

\* events from which no user id can be recovered: the subscription carries
\* no metadata.userId, or the invoice names no subscription
NoUserEvents ==
  [ evt_su_n |-> Payload("customer.subscription.updated", NULL, "sub_n", NULL, 0, NULL),
    evt_sd_n |-> Payload("customer.subscription.deleted", NULL, "sub_n", NULL, 0, NULL) ]

NoUserInvoices ==
  [ evt_ip_n |-> Payload("invoice.payment_succeeded", NULL, "sub_n", "pi_1", 999, NULL),
    evt_if_n |-> Payload("invoice.payment_failed", NULL, "sub_n", NULL, 0, NULL),
    evt_if_0 |-> Payload("invoice.payment_failed", NULL, NULL, NULL, 0, NULL) ]

\* a checkout session and invoices with and without a payment intent; the
\* click id in an invoice's own metadata is not the subscription's
PaymentEvents ==
  [ evt_co_1 |-> Payload("checkout.session.completed", "u1", "sub_2", "pi_1", 999, "click_a"),
    evt_co_0 |-> Payload("checkout.session.completed", "u1", "sub_1", NULL, 0, "click_a"),
    evt_ip_2 |-> Payload("invoice.payment_succeeded", NULL, "sub_1", "pi_2", 999, "click_i"),
    evt_ip_0 |-> Payload("invoice.payment_succeeded", NULL, "sub_1", NULL, 0, NULL) ]

Catalogs ==
  {CheckoutEvents, SubscriptionEvents, NoUserEvents, NoUserInvoices, PaymentEvents}

Signatures == {"missing", "bad", "ok"}

VARIABLES
  webhookEvents,   \* WebhookEvent table: sequence of rows in insertion order
  users,           \* User table: id -> subscription fields, existing users only
  payments,        \* Payment table: sequence of rows in insertion order
  stripeUp,        \* whether stripe.subscriptions.retrieve currently answers
  now,             \* the server clock read by new Date(); each reading is later than the last
  catalog,         \* the processor's events of this behaviour: event id -> payload
  pc,              \* per delivery: the await it is suspended at
  rq,              \* per delivery: its inputs (signature state, event id)
  herr,            \* per delivery: message of the exception its handler threw
  created,         \* per delivery: whether its webhookEvent.create succeeded
  result,          \* per delivery: how handleWebhook ended
  resp,            \* per delivery: the HTTP answer of the route
  handlerCalls,    \* history: event id -> number of handler invocations
  rowUpdates,      \* history: per WebhookEvent row, number of updates
  trackingEvents,  \* TrackingEvent table: sequence of rows in insertion order
  account,         \* User table: id -> email, name, keitaroSubId, stripeCustomerId
  postbacks,       \* history: the postback requests sent to the tracker, in order
  cpc,             \* per call: the await it is suspended at
  loc,             \* per call: its inputs and local variables
  cresp,           \* per call: the answer its caller got
  sessions         \* Session table: set of rows (userId, token, expiresAt)

\* the Session table is written by the /auth routes only
apiVars == <<trackingEvents, account, postbacks, cpc, loc, cresp, sessions>>

vars == <<webhookEvents, users, payments, stripeUp, now, catalog, pc, rq, herr,
          created, result, resp, handlerCalls, rowUpdates,
          trackingEvents, account, postbacks, cpc, loc, cresp, sessions>>


\* ----------------------------------------------------------- error values
InvalidSignature == "Invalid webhook signature"
MissingSignature == "Missing signature"
UniqueEventId == "Unique constraint failed on the fields: (eventId)"
UniqueStripePaymentId == "Unique constraint failed on the fields: (stripePaymentId)"
ForeignKeyUserId == "Foreign key constraint failed on the field: userId"
RecordNotFound == "Record to update not found"
StripeError == "Stripe API error"

Pending == [kind |-> "pending", msg |-> NULL]
Returned == [kind |-> "returned", msg |-> NULL]
Threw(m) == [kind |-> "threw", msg |-> m]

NoResponse == [status |-> 0, body |-> NULL]
Received == [status |-> 200, body |-> "received"]
ErrorResponse(code, m) == [status |-> code, body |-> m]

\* ------------------------------------------------------ WebhookEvent table
\* a verification that lets every signature header through
constructEvent_acceptsAll(sig) == TRUE

\* stripe.webhooks.constructEvent: succeeds only for a header that verifies
\* against the raw body and the webhook secret within the tolerance.
constructEvent(sig) == sig = "ok"

\* a lookup that never finds the stored event
findUnique_neverFinds(rows, e) == {}

\* prisma.webhookEvent.findUnique({ where: { eventId } })
findUnique(rows, e) == {i \in DOMAIN rows : rows[i].eventId = e}

\* a schema without the unique attribute on eventId
eventIdUnique_unchecked(rows, e) == TRUE

\* the @unique attribute of WebhookEvent.eventId, enforced by create
eventIdUnique(rows, e) == \A i \in DOMAIN rows : rows[i].eventId # e

\* an insert that does not reach the table before the handler is dispatched
createWebhookEvent_lost(rows, e, t) == rows

\* prisma.webhookEvent.create with the schema defaults
createWebhookEvent(rows, e, t) ==
  Append(rows, [source |-> "stripe", eventId |-> e, eventType |-> t,
                processed |-> FALSE, processedAt |-> NoDate, error |-> NULL])

\* a success update that forgets processedAt
markProcessed_noTimestamp(rows, e, t) ==
  [i \in DOMAIN rows |->
     IF rows[i].eventId = e THEN [rows[i] EXCEPT !.processed = TRUE] ELSE rows[i]]

\* prisma.webhookEvent.update on the success path
markProcessed(rows, e, t) ==
  [i \in DOMAIN rows |->
     IF rows[i].eventId = e
       THEN [rows[i] EXCEPT !.processed = TRUE, !.processedAt = t]
       ELSE rows[i]]

\* a catch block that does not record the exception's message
markFailed_noError(rows, e, t, m) ==
  [i \in DOMAIN rows |->
     IF rows[i].eventId = e
       THEN [rows[i] EXCEPT !.processed = TRUE, !.processedAt = t]
       ELSE rows[i]]

\* prisma.webhookEvent.update in the catch block
markFailed(rows, e, t, m) ==
  [i \in DOMAIN rows |->
     IF rows[i].eventId = e
       THEN [rows[i] EXCEPT !.processed = TRUE, !.processedAt = t, !.error = m]
       ELSE rows[i]]

countUpdate(cnt, rows, e) ==
  [i \in DOMAIN rows |-> IF rows[i].eventId = e THEN cnt[i] + 1 ELSE cnt[i]]

\* ------------------------------------------------------------- User table
NewUser == [subscriptionId |-> NULL, subscriptionStatus |-> "inactive",
            subscriptionPlan |-> NULL, subscriptionEndDate |-> NoDate]

\* new Date(seconds * 1000)
toDate(seconds) == seconds * 1000

\* a plan that is never annual
planOf_monthlyOnly(subscription) == "monthly"

\* items.data[0]?.price.id === config.stripe.prices.annual ? 'annual' : 'monthly'
planOf(subscription) ==
  IF subscription.price = AnnualPriceId THEN "annual" ELSE "monthly"

updateUserSubscription(us, userId, subscription) ==
  [us EXCEPT ![userId] =
     [subscriptionId |-> subscription.id,
      subscriptionStatus |-> subscription.status,
      subscriptionPlan |-> planOf(subscription),
      subscriptionEndDate |-> toDate(subscription.current_period_end)]]

\* a cancellation that stores the period end in seconds, not as a Date
cancelUser_seconds(us, userId, subscription) ==
  [us EXCEPT ![userId].subscriptionStatus = "canceled",
             ![userId].subscriptionEndDate = subscription.current_period_end]

cancelUser(us, userId, subscription) ==
  [us EXCEPT ![userId].subscriptionStatus = "canceled",
             ![userId].subscriptionEndDate = toDate(subscription.current_period_end)]

\* a failed invoice that also drops the subscription
pastDueUser_dropping(us, userId) ==
  [us EXCEPT ![userId].subscriptionStatus = "past_due",
             ![userId].subscriptionId = NULL]

pastDueUser(us, userId) ==
  [us EXCEPT ![userId].subscriptionStatus = "past_due"]

\* ---------------------------------------------------------- Payment table
\* a Payment table without the unique index on stripePaymentId
stripePaymentIdUnique_unchecked(ps, pi) == TRUE

stripePaymentIdUnique(ps, pi) == \A i \in DOMAIN ps : ps[i].stripePaymentId # pi

paymentRow(userId, pi, amount, currency, click) ==
  [userId |-> userId, stripePaymentId |-> pi, amount |-> amount,
   currency |-> currency, status |-> "succeeded", paymentMethod |-> "card",
   keitaroSubId |-> click]

\* ------------------------------------------------------------- dispatching
\* the switch of handleWebhook: the handler a type is routed to
handlerFor(t) ==
  CASE t = "checkout.session.completed" -> "handleCheckoutSessionCompleted"
    [] t \in {"customer.subscription.created", "customer.subscription.updated"}
         -> "handleSubscriptionUpdate"
    [] t = "customer.subscription.deleted" -> "handleSubscriptionDeleted"
    [] t = "invoice.payment_succeeded" -> "handleInvoicePaymentSucceeded"
    [] t = "invoice.payment_failed" -> "handleInvoicePaymentFailed"
    [] OTHER -> "default"

\* the user id a handler works on once it has the subscription in hand
handlerUserId(p) ==
  IF p.type = "checkout.session.completed" THEN p.userId
  ELSE IF p.sub = NULL THEN NULL ELSE StripeSubs[p.sub].userId

\* handlers whose early return ends the request without marking the event
firstAwait_unmarked(p) ==
  CASE handlerFor(p.type) = "handleCheckoutSessionCompleted" ->
         IF p.userId = NULL THEN "done" ELSE "retrieve"
    [] handlerFor(p.type) \in {"handleSubscriptionUpdate", "handleSubscriptionDeleted"} ->
         IF handlerUserId(p) = NULL THEN "done" ELSE "updateUser"
    [] handlerFor(p.type) = "handleInvoicePaymentSucceeded" ->
         IF p.sub = NULL \/ p.pi = NULL THEN "done" ELSE "retrieve"
    [] handlerFor(p.type) = "handleInvoicePaymentFailed" ->
         IF p.sub = NULL THEN "done" ELSE "retrieve"
    [] OTHER -> "done"

\* the first await a handler reaches once it is invoked ("mark" when it
\* returns without awaiting anything)
firstAwait(p) ==
  CASE handlerFor(p.type) = "handleCheckoutSessionCompleted" ->
         IF p.userId = NULL THEN "mark" ELSE "retrieve"
    [] handlerFor(p.type) \in {"handleSubscriptionUpdate", "handleSubscriptionDeleted"} ->
         IF handlerUserId(p) = NULL THEN "mark" ELSE "updateUser"
    [] handlerFor(p.type) = "handleInvoicePaymentSucceeded" ->
         IF p.sub = NULL \/ p.pi = NULL THEN "mark" ELSE "retrieve"
    [] handlerFor(p.type) = "handleInvoicePaymentFailed" ->
         IF p.sub = NULL THEN "mark" ELSE "retrieve"
    [] OTHER -> "mark"

\* a hard failure on event types the switch does not know
afterCreate_throwing(p) ==
  IF handlerFor(p.type) = "default" THEN "markFailed" ELSE firstAwait(p)

\* the await handleWebhook reaches after webhookEvent.create returned: the
\* default branch only logs, every other branch calls its handler
afterCreate(p) ==
  IF handlerFor(p.type) = "default" THEN "mark" ELSE firstAwait(p)

\* invoice handlers that go on without checking for a missing userId
afterRetrieve_noUserCheck(p) ==
  CASE handlerFor(p.type) = "handleCheckoutSessionCompleted" -> "updateUser"
    [] handlerFor(p.type) = "handleInvoicePaymentSucceeded" -> "createPayment"
    [] handlerFor(p.type) = "handleInvoicePaymentFailed" -> "updateUser"
    [] OTHER -> "mark"

\* the await that follows a successful stripe.subscriptions.retrieve
afterRetrieve(p) ==
  CASE handlerFor(p.type) = "handleCheckoutSessionCompleted" -> "updateUser"
    [] handlerFor(p.type) = "handleInvoicePaymentSucceeded" ->
         IF handlerUserId(p) = NULL THEN "mark" ELSE "createPayment"
    [] handlerFor(p.type) = "handleInvoicePaymentFailed" ->
         IF handlerUserId(p) = NULL THEN "mark" ELSE "updateUser"
    [] OTHER -> "mark"

\* the await that follows a successful prisma.user.update
afterUpdateUser(p) ==
  IF handlerFor(p.type) = "handleCheckoutSessionCompleted" /\ p.pi # NULL
    THEN "createPayment" ELSE "mark"

\* the data a handler writes to the user row
userWrite(us, p) ==
  CASE handlerFor(p.type) = "handleSubscriptionDeleted" ->
         cancelUser(us, handlerUserId(p), StripeSubs[p.sub])
    [] handlerFor(p.type) = "handleInvoicePaymentFailed" ->
         pastDueUser(us, handlerUserId(p))
    [] OTHER -> updateUserSubscription(us, handlerUserId(p), StripeSubs[p.sub])

\* handlers that take the click id from the event whatever its type
paymentWrite_eventClick(p) ==
  paymentRow(handlerUserId(p), p.pi, p.amount, "usd", p.keitaroSubId)

\* the row a handler inserts into Payment
paymentWrite(p) ==
  IF handlerFor(p.type) = "handleCheckoutSessionCompleted"
    THEN paymentRow(p.userId, p.pi, p.amount, "usd", p.keitaroSubId)
    ELSE paymentRow(handlerUserId(p), p.pi, p.amount, "usd",
                    StripeSubs[p.sub].keitaroSubId)

\* ------------------------------------------------- accounts and tracker
NoAmount == 0 - 1    \* an Int? column or optional number that is absent

\* users start without a Stripe customer; the stored click id is chosen per
\* behaviour
Account(email, click) ==
  [email |-> email, name |-> NULL, keitaroSubId |-> click, stripeCustomerId |-> NULL]

Emails == {"a@x.io", "b@x.io"}
NewUserId == "u2"
ClickInputs == {NULL, "click_r"}
StoredClicks == {NULL, "click_a"}
CustomClick == "click_c"

RegistrationStatus == "reg"
PurchaseStatus == "sale"
DefaultCurrency == "USD"

\* what one GET to the tracker can end in: an HTTP response with a status,
\* or none within the 5000 ms timeout
HttpResponse(status) == [kind |-> "response", status |-> status]
NoAnswer(kind) == [kind |-> kind, status |-> 0]
NoOutcome == NoAnswer("none")
TrackerOutcomes ==
  {HttpResponse(200), HttpResponse(404), HttpResponse(503), NoAnswer("timeout")}

validateStatus(status) == status < 500

\* axios.get resolves when a response arrives that validateStatus accepts,
\* and rejects otherwise
axiosResolves(outcome) ==
  outcome.kind = "response" /\ validateStatus(outcome.status)

Value(b) == [kind |-> "returned", value |-> b]
Raised == [kind |-> "threw", value |-> FALSE]

\* a dispatcher whose catch block is missing
sendPostback_noCatch(outcome) ==
  IF axiosResolves(outcome) THEN Value(outcome.status = 200) ELSE Raised

\* what sendPostback gives its caller for each outcome of the GET
sendPostback(outcome) ==
  IF axiosResolves(outcome) THEN Value(outcome.status = 200) ELSE Value(FALSE)

NoPayout == [whole |-> NoAmount, frac |-> 0]

\* an amount passed on to the tracker as it is
amountInDollars_unconverted(amount) == [whole |-> amount, frac |-> 0]

\* a / 100 as a decimal number with two fraction digits
amountInDollars(amount) == [whole |-> amount \div 100, frac |-> amount % 100]

\* the query of the postback URL; payout is left out when no amount is
\* passed, currency when it is empty
postbackParams(clickId, status, payout, currency) ==
  [subid |-> clickId, status |-> status, payout |-> payout,
   currency |-> IF currency \in {NULL, ""} THEN NULL ELSE currency]

\* ---------------------------------------------------- TrackingEvent table
trackingRow(userId, eventType, subId, status, amount, currency, t) ==
  [userId |-> userId, eventType |-> eventType, subId |-> subId,
   status |-> status, amount |-> amount, currency |-> currency,
   sentToTracker |-> FALSE, sentAt |-> NoDate, createdAt |-> t]

registrationRow(userId, clickId, t) ==
  trackingRow(userId, "registration", clickId, RegistrationStatus, NoAmount, NULL, t)

purchaseRow(userId, clickId, amount, currency, t) ==
  trackingRow(userId, "purchase", clickId, PurchaseStatus, amount, currency, t)

customRow(eventType, clickId, t) ==
  trackingRow(NULL, eventType, clickId, NULL, NoAmount, NULL, t)

\* an update that stamps the row whatever the dispatcher returned
updateTrackingEvent_alwaysStamped(rows, i, success, t) ==
  [rows EXCEPT ![i].sentToTracker = success, ![i].sentAt = t]

\* the update that ends trackRegistration and trackPurchase
updateTrackingEvent(rows, i, success, t) ==
  [rows EXCEPT ![i].sentToTracker = success,
               ![i].sentAt = IF success THEN t ELSE NoDate]

\* a retry update that sets the flag without the timestamp
markSent_noTimestamp(rows, i, t) ==
  [rows EXCEPT ![i].sentToTracker = TRUE]

\* the update of retryFailedPostbacks after a successful retry
markSent(rows, i, t) ==
  [rows EXCEPT ![i].sentToTracker = TRUE, ![i].sentAt = t]

RetryWindow == 24 * 60 * 60 * 1000
RetryBatch == 100

\* take: n on a findMany without orderBy: any n of the matching rows, kept
\* here in table order; all of them when there are no more than n
RECURSIVE Take(_, _)
Take(seq, n) ==
  IF Len(seq) <= n THEN {seq}
  ELSE UNION {Take(SubSeq(seq, 1, k - 1) \o SubSeq(seq, k + 1, Len(seq)), n) :
                k \in 1..Len(seq)}

\* a where clause without the createdAt condition
unsentSince_noWindow(rows, since) ==
  SelectSeq([i \in 1..Len(rows) |-> i], LAMBDA i : ~rows[i].sentToTracker)

\* where: sentToTracker false and createdAt gte since; ids in table order
unsentSince(rows, since) ==
  SelectSeq([i \in 1..Len(rows) |-> i],
            LAMBDA i : ~rows[i].sentToTracker /\ rows[i].createdAt >= since)

\* the findMany of retryFailedPostbacks: the results it may return, each the
\* ids of the selected rows
failedEvents(rows, t) == Take(unsentSince(rows, t - RetryWindow), RetryBatch)

\* whether the retry loop sends a postback for a selected row
retrySends(event) ==
  /\ event.subId # NULL
  /\ \/ event.eventType = "registration"
     \/ event.eventType = "purchase" /\ event.amount \notin {NoAmount, 0}

\* a loop that updates the row whatever sendPostback returned
retryWrites_always(success) == TRUE

\* whether the retry loop updates the row after its postback
retryWrites(success) == success

\* the request the retry loop sends for a selected row
retryParams(event) ==
  IF event.eventType = "registration"
    THEN postbackParams(event.subId,
                        IF event.status = NULL THEN RegistrationStatus ELSE event.status,
                        NoPayout, NULL)
    ELSE postbackParams(event.subId,
                        IF event.status = NULL THEN PurchaseStatus ELSE event.status,
                        amountInDollars(event.amount),
                        IF event.currency \in {NULL, ""} THEN DefaultCurrency
                        ELSE event.currency)

\* ------------------------------------------------------ client-side Stripe
\* req.body.priceId: the existing user asks for the monthly plan, a newly
\* registered one for the annual plan
priceId(userId) ==
  IF userId \in ExistingUsers THEN "price_monthly" ELSE AnnualPriceId

\* the subscription stripe.subscriptions.create returns; a trial starts
\* with an invoice of 0
createdSubscription(userId, price, click) ==
  [id |-> "sub_c", status |-> IF price = AnnualPriceId THEN "trialing" ELSE "active",
   price |-> price, current_period_end |-> 7, userId |-> userId,
   keitaroSubId |-> IF click = NULL THEN "" ELSE click]

NoSubscription ==
  [id |-> NULL, status |-> NULL, price |-> NULL, current_period_end |-> 0,
   userId |-> NULL, keitaroSubId |-> NULL]

\* latest_invoice.amount_paid and latest_invoice.currency
invoiceAmount(subscription) == IF subscription.status = "trialing" THEN 0 ELSE 999
InvoiceCurrency == "usd"

\* a click id that counts as given: neither undefined/null nor empty
given(clickId) == clickId \notin {NULL, ""}

\* a lookup that passes an absent stored click id on as if it were one
resolveClickId_absentPasses(passed, stored) ==
  IF given(passed) THEN passed ELSE "undefined"

\* the click id trackRegistration / trackPurchase work with
resolveClickId(passed, stored) ==
  IF given(passed) THEN passed ELSE IF given(stored) THEN stored ELSE NULL

\* a request that carries neither an Authorization header nor a token cookie
NoToken == [userId |-> NULL, iat |-> 0]

NoLoc ==
  [route |-> NULL, userId |-> NULL, clickId |-> NULL, sub |-> NoSubscription,
   row |-> 0, success |-> FALSE, outcome |-> NoOutcome, batch |-> <<>>,
   email |-> NULL, token |-> NoToken]

\* the answers of the routes; a library call has no HTTP status
ApiOk(route) ==
  CASE route = "register" -> [status |-> 201, body |-> "user"]
    [] route = "subscribe" -> [status |-> 200, body |-> "subscription"]
    [] route = "retry" -> [status |-> 200, body |-> "Retry process started"]
    [] route = "login" -> [status |-> 200, body |-> "user"]
    [] route = "logout" -> [status |-> 200, body |-> "Logged out successfully"]
    [] route = "me" -> [status |-> 200, body |-> "user"]
    [] OTHER -> [status |-> 0, body |-> "returned"]

ApiCatch(route, m) ==
  CASE route = "register" -> ErrorResponse(400, m)
    [] route = "subscribe" -> ErrorResponse(500, m)
    [] route = "retry" -> ErrorResponse(500, "Failed to retry tracking events")
    [] route = "login" -> ErrorResponse(401, m)
    [] route = "logout" -> ErrorResponse(500, "Failed to logout")
    [] route = "me" -> ErrorResponse(500, "Failed to get user")
    [] OTHER -> [status |-> 0, body |-> m]

PostbackError == "postback failed"
UserExists == "User already exists"

\* no client call has started
ApiIdle ==
  /\ trackingEvents = <<>>
  /\ postbacks = <<>>
  /\ cpc = [c \in Calls |-> "idle"]
  /\ loc = [c \in Calls |-> NoLoc]
  /\ cresp = [c \in Calls |-> NoResponse]
  /\ sessions = {}

\* ------------------------------------------------------------------- state
Init ==
  /\ webhookEvents = <<>>
  /\ users = [u \in ExistingUsers |-> NewUser]
  /\ payments = <<>>
  /\ stripeUp \in BOOLEAN
  /\ now = 1
  /\ catalog \in Catalogs
  /\ pc = [r \in Reqs |-> "idle"]
  /\ rq = [r \in Reqs |-> [sig |-> NULL, eventId |-> NULL]]
  /\ herr = [r \in Reqs |-> NULL]
  /\ created = [r \in Reqs |-> FALSE]
  /\ result = [r \in Reqs |-> Pending]
  /\ resp = [r \in Reqs |-> NoResponse]
  /\ handlerCalls = [e \in DOMAIN catalog |-> 0]
  /\ rowUpdates = <<>>
  /\ account = [u \in ExistingUsers |-> Account("a@x.io", NULL)]
  /\ ApiIdle

InFlight(r) == pc[r] \notin {"idle", "done"}
NextToArrive(r) == pc[r] = "idle" /\ (IF r = 1 THEN TRUE ELSE pc[r - 1] # "idle")
EventOf(r) == catalog[rq[r].eventId]

\* the route's catch block: every exception of handleWebhook is answered 400
routeCatch(m) == ErrorResponse(400, m)

\* handleWebhook ended for request r: the route answers and the request is over
Finish(r, res) ==
  /\ pc' = [pc EXCEPT ![r] = "done"]
  /\ result' = [result EXCEPT ![r] = res]
  /\ resp' = [resp EXCEPT ![r] =
                IF res.kind = "returned" THEN Received ELSE routeCatch(res.msg)]

\* ----------------------------------------------------------------- actions
\* POST /webhook/stripe without a stripe-signature header
DeliverUnsigned(r) ==
  /\ NextToArrive(r)
  /\ pc' = [pc EXCEPT ![r] = "done"]
  /\ rq' = [rq EXCEPT ![r] = [sig |-> "missing", eventId |-> NULL]]
  /\ resp' = [resp EXCEPT ![r] = ErrorResponse(400, MissingSignature)]
  /\ UNCHANGED apiVars
  /\ UNCHANGED <<webhookEvents, users, payments, stripeUp, now, catalog, herr,
                 created, result, handlerCalls, rowUpdates>>

\* a delivery claiming event id e; runs constructEvent and, when the
\* signature verifies, the findUnique lookup
DeliverEvent(r, e, sig) ==
  /\ NextToArrive(r)
  /\ rq' = [rq EXCEPT ![r] = [sig |-> sig, eventId |-> e]]
  /\ IF ~constructEvent(sig)
       THEN Finish(r, Threw(InvalidSignature))
       ELSE IF findUnique(webhookEvents, e) # {}
       THEN Finish(r, Returned)
       ELSE /\ pc' = [pc EXCEPT ![r] = "create"]
            /\ UNCHANGED <<result, resp>>
  /\ UNCHANGED apiVars
  /\ UNCHANGED <<webhookEvents, users, payments, stripeUp, now, catalog, herr, created,
                 handlerCalls, rowUpdates>>

Deliver(r) ==
  \E e \in DOMAIN catalog, sig \in Signatures \ {"missing"} : DeliverEvent(r, e, sig)

\* prisma.webhookEvent.create, then the switch up to the handler's first await
Create(r) ==
  /\ pc[r] = "create"
  /\ LET e == rq[r].eventId
         p == EventOf(r)
     IN IF ~eventIdUnique(webhookEvents, e)
          THEN /\ Finish(r, Threw(UniqueEventId))
               /\ UNCHANGED <<webhookEvents, rowUpdates, created, handlerCalls>>
          ELSE /\ webhookEvents' = createWebhookEvent(webhookEvents, e, p.type)
               /\ rowUpdates' = Append(rowUpdates, 0)
               /\ created' = [created EXCEPT ![r] = TRUE]
               /\ handlerCalls' =
                    [handlerCalls EXCEPT ![e] =
                       IF handlerFor(p.type) = "default" THEN @ ELSE @ + 1]
               /\ pc' = [pc EXCEPT ![r] = afterCreate(p)]
               /\ UNCHANGED <<result, resp>>
  /\ UNCHANGED apiVars
  /\ UNCHANGED <<users, payments, stripeUp, now, catalog, rq, herr>>

\* stripe.subscriptions.retrieve
Retrieve(r) ==
  /\ pc[r] = "retrieve"
  /\ IF stripeUp
       THEN /\ pc' = [pc EXCEPT ![r] = afterRetrieve(EventOf(r))]
            /\ UNCHANGED herr
       ELSE /\ pc' = [pc EXCEPT ![r] = "markFailed"]
            /\ herr' = [herr EXCEPT ![r] = StripeError]
  /\ UNCHANGED apiVars
  /\ UNCHANGED <<webhookEvents, users, payments, stripeUp, now, catalog, rq,
                 created, result, resp, handlerCalls, rowUpdates>>

\* prisma.user.update of a handler
UpdateUser(r) ==
  /\ pc[r] = "updateUser"
  /\ LET p == EventOf(r)
     IN IF handlerUserId(p) \in DOMAIN users
          THEN /\ users' = userWrite(users, p)
               /\ pc' = [pc EXCEPT ![r] = afterUpdateUser(p)]
               /\ UNCHANGED herr
          ELSE /\ pc' = [pc EXCEPT ![r] = "markFailed"]
               /\ herr' = [herr EXCEPT ![r] = RecordNotFound]
               /\ UNCHANGED users
  /\ UNCHANGED apiVars
  /\ UNCHANGED <<webhookEvents, payments, stripeUp, now, catalog, rq, created,
                 result, resp, handlerCalls, rowUpdates>>

\* prisma.payment.create of a handler
CreatePayment(r) ==
  /\ pc[r] = "createPayment"
  /\ LET p == EventOf(r)
         row == paymentWrite(p)
     IN IF ~stripePaymentIdUnique(payments, row.stripePaymentId)
          THEN /\ pc' = [pc EXCEPT ![r] = "markFailed"]
               /\ herr' = [herr EXCEPT ![r] = UniqueStripePaymentId]
               /\ UNCHANGED payments
          ELSE IF row.userId \notin DOMAIN users
          THEN /\ pc' = [pc EXCEPT ![r] = "markFailed"]
               /\ herr' = [herr EXCEPT ![r] = ForeignKeyUserId]
               /\ UNCHANGED payments
          ELSE /\ payments' = Append(payments, row)
               /\ pc' = [pc EXCEPT ![r] = "mark"]
               /\ UNCHANGED herr
  /\ UNCHANGED apiVars
  /\ UNCHANGED <<webhookEvents, users, stripeUp, now, catalog, rq, created,
                 result, resp, handlerCalls, rowUpdates>>

\* the handler returned: mark the event as processed and return
Mark(r) ==
  /\ pc[r] = "mark"
  /\ webhookEvents' = markProcessed(webhookEvents, rq[r].eventId, now)
  /\ rowUpdates' = countUpdate(rowUpdates, webhookEvents, rq[r].eventId)
  /\ now' = now + 1
  /\ Finish(r, Returned)
  /\ UNCHANGED apiVars
  /\ UNCHANGED <<users, payments, stripeUp, catalog, rq, herr, created,
                 handlerCalls>>

\* the handler threw: mark the event as failed and re-throw
MarkFailed(r) ==
  /\ pc[r] = "markFailed"
  /\ webhookEvents' = markFailed(webhookEvents, rq[r].eventId, now, herr[r])
  /\ rowUpdates' = countUpdate(rowUpdates, webhookEvents, rq[r].eventId)
  /\ now' = now + 1
  /\ Finish(r, Threw(herr[r]))
  /\ UNCHANGED apiVars
  /\ UNCHANGED <<users, payments, stripeUp, catalog, rq, herr, created,
                 handlerCalls>>

\* the server process dies: every request in flight stops where it is,
\* its local variables are lost and its caller gets no answer
Crash ==
  /\ \E r \in Reqs : InFlight(r)
  /\ pc' = [r \in Reqs |-> IF InFlight(r) THEN "crashed" ELSE pc[r]]
  /\ herr' = [r \in Reqs |-> IF InFlight(r) THEN NULL ELSE herr[r]]
  /\ UNCHANGED apiVars
  /\ UNCHANGED <<webhookEvents, users, payments, stripeUp, now, catalog, rq,
                 created, result, resp, handlerCalls, rowUpdates>>

\* the Stripe API goes down or comes back
StripeFlip ==
  /\ stripeUp' = ~stripeUp
  /\ UNCHANGED apiVars
  /\ UNCHANGED <<webhookEvents, users, payments, now, catalog, pc, rq, herr,
                 created, result, resp, handlerCalls, rowUpdates>>

Next ==
  \/ \E r \in Reqs : DeliverUnsigned(r)
  \/ \E r \in Reqs : Deliver(r)
  \/ \E r \in Reqs : Create(r)
  \/ \E r \in Reqs : Retrieve(r)
  \/ \E r \in Reqs : UpdateUser(r)
  \/ \E r \in Reqs : CreatePayment(r)
  \/ \E r \in Reqs : Mark(r)
  \/ \E r \in Reqs : MarkFailed(r)
  \/ Crash
  \/ StripeFlip

Spec == Init /\ [][Next]_vars

\* ======================================= client routes and KeitaroService
hookVars == <<webhookEvents, payments, catalog, pc, rq, herr, created, result,
              resp, handlerCalls, rowUpdates, sessions>>

ApiInit ==
  /\ webhookEvents = <<>>
  /\ users = [u \in ExistingUsers |-> NewUser]
  /\ payments = <<>>
  /\ stripeUp \in BOOLEAN
  /\ now = 1
  /\ catalog = CheckoutEvents
  /\ pc = [r \in Reqs |-> "idle"]
  /\ rq = [r \in Reqs |-> [sig |-> NULL, eventId |-> NULL]]
  /\ herr = [r \in Reqs |-> NULL]
  /\ created = [r \in Reqs |-> FALSE]
  /\ result = [r \in Reqs |-> Pending]
  /\ resp = [r \in Reqs |-> NoResponse]
  /\ handlerCalls = [e \in DOMAIN catalog |-> 0]
  /\ rowUpdates = <<>>
  /\ \E click \in StoredClicks :
       account = [u \in ExistingUsers |-> Account("a@x.io", click)]
  /\ ApiIdle

NextToCall(c) == cpc[c] = "idle" /\ (IF c = 1 THEN TRUE ELSE cpc[c - 1] # "idle")

\* the call is over: its caller gets the answer and its local variables
\* are gone; the route and the TrackingEvent row it created stay on record
Respond(c, route, row, answer) ==
  /\ cpc' = [cpc EXCEPT ![c] = "done"]
  /\ cresp' = [cresp EXCEPT ![c] = answer]
  /\ loc' = [loc EXCEPT ![c] = [NoLoc EXCEPT !.route = route, !.row = row]]

\* POST /auth/register: AuthService.register, then trackRegistration up to
\* its first await
Register(c) ==
  /\ NextToCall(c)
  /\ \E email \in Emails, clickId \in ClickInputs :
       IF \E u \in DOMAIN account : account[u].email = email
         THEN /\ Respond(c, "register", 0, ApiCatch("register", UserExists))
              /\ UNCHANGED <<users, account>>
         ELSE /\ users' = (NewUserId :> NewUser) @@ users
              /\ account' = (NewUserId :> Account(email, clickId)) @@ account
              /\ loc' = [loc EXCEPT ![c] = [NoLoc EXCEPT !.route = "register",
                                                         !.userId = NewUserId,
                                                         !.clickId = clickId]]
              /\ cpc' = [cpc EXCEPT ![c] =
                           IF given(clickId) THEN "trackCreate" ELSE "trackLookup"]
              /\ UNCHANGED cresp
  /\ UNCHANGED <<stripeUp, now, trackingEvents, postbacks>>
  /\ UNCHANGED hookVars

\* POST /subscription/create: the findUnique of the route
SubscribeStart(c) ==
  /\ NextToCall(c)
  /\ \E u \in DOMAIN users :
       loc' = [loc EXCEPT ![c] =
                 [NoLoc EXCEPT !.route = "subscribe", !.userId = u,
                               !.sub = createdSubscription(u, priceId(u),
                                                           account[u].keitaroSubId)]]
  /\ cpc' = [cpc EXCEPT ![c] = "stripe"]
  /\ UNCHANGED <<users, stripeUp, now, trackingEvents, account, postbacks, cresp>>
  /\ UNCHANGED hookVars

\* createSubscription: customer, payment method and stripe.subscriptions.create
StripeSubscribe(c) ==
  /\ cpc[c] = "stripe"
  /\ IF stripeUp
       THEN /\ account' = [account EXCEPT ![loc[c].userId].stripeCustomerId = "cus_1"]
            /\ cpc' = [cpc EXCEPT ![c] = "updateUserSub"]
            /\ UNCHANGED <<cresp, loc>>
       ELSE /\ Respond(c, "subscribe", 0, ApiCatch("subscribe", StripeError))
            /\ UNCHANGED account
  /\ UNCHANGED <<users, stripeUp, now, trackingEvents, postbacks>>
  /\ UNCHANGED hookVars

\* createSubscription: updateUserSubscription, then trackPurchase (called
\* without a click id) up to its findUnique
UpdateUserSub(c) ==
  /\ cpc[c] = "updateUserSub"
  /\ users' = updateUserSubscription(users, loc[c].userId, loc[c].sub)
  /\ cpc' = [cpc EXCEPT ![c] = "trackLookup"]
  /\ UNCHANGED <<stripeUp, now, trackingEvents, account, postbacks, loc, cresp>>
  /\ UNCHANGED hookVars

\* trackRegistration / trackPurchase: the findUnique for the stored click id
TrackLookup(c) ==
  /\ cpc[c] = "trackLookup"
  /\ LET clickId == resolveClickId(loc[c].clickId, account[loc[c].userId].keitaroSubId)
     IN IF clickId = NULL
          THEN Respond(c, loc[c].route, 0, ApiOk(loc[c].route))
          ELSE /\ loc' = [loc EXCEPT ![c].clickId = clickId]
               /\ cpc' = [cpc EXCEPT ![c] = "trackCreate"]
               /\ UNCHANGED cresp
  /\ UNCHANGED <<users, stripeUp, now, trackingEvents, account, postbacks>>
  /\ UNCHANGED hookVars

\* trackRegistration / trackPurchase: trackingEvent.create
TrackCreate(c) ==
  /\ cpc[c] = "trackCreate"
  /\ trackingEvents' =
       Append(trackingEvents,
              IF loc[c].route = "register"
                THEN registrationRow(loc[c].userId, loc[c].clickId, now)
                ELSE purchaseRow(loc[c].userId, loc[c].clickId,
                                 invoiceAmount(loc[c].sub), InvoiceCurrency, now))
  /\ loc' = [loc EXCEPT ![c].row = Len(trackingEvents) + 1]
  /\ cpc' = [cpc EXCEPT ![c] = "trackSend"]
  /\ UNCHANGED <<users, stripeUp, now, account, postbacks, cresp>>
  /\ UNCHANGED hookVars

\* trackRegistration / trackPurchase: sendPostback
TrackSend(c) ==
  /\ cpc[c] = "trackSend"
  /\ postbacks' =
       Append(postbacks,
              [row |-> loc[c].row,
               query |-> IF loc[c].route = "register"
                           THEN postbackParams(loc[c].clickId, RegistrationStatus,
                                               NoPayout, NULL)
                           ELSE postbackParams(loc[c].clickId, PurchaseStatus,
                                               amountInDollars(invoiceAmount(loc[c].sub)),
                                               InvoiceCurrency)])
  /\ \E outcome \in TrackerOutcomes :
       LET sent == sendPostback(outcome)
       IN IF sent.kind = "threw"
            THEN Respond(c, loc[c].route, loc[c].row,
                         ApiCatch(loc[c].route, PostbackError))
            ELSE /\ loc' = [loc EXCEPT ![c].outcome = outcome,
                                       ![c].success = sent.value]
                 /\ cpc' = [cpc EXCEPT ![c] = "trackUpdate"]
                 /\ UNCHANGED cresp
  /\ UNCHANGED <<users, stripeUp, now, trackingEvents, account>>
  /\ UNCHANGED hookVars

\* trackRegistration / trackPurchase: trackingEvent.update; the route answers
TrackUpdate(c) ==
  /\ cpc[c] = "trackUpdate"
  /\ trackingEvents' =
       updateTrackingEvent(trackingEvents, loc[c].row, loc[c].success, now)
  /\ Respond(c, loc[c].route, loc[c].row, ApiOk(loc[c].route))
  /\ UNCHANGED <<users, stripeUp, now, account, postbacks>>
  /\ UNCHANGED hookVars

\* trackCustomEvent(eventType, clickId)
CustomEvent(c) ==
  /\ NextToCall(c)
  /\ trackingEvents' = Append(trackingEvents, customRow("custom", CustomClick, now))
  /\ Respond(c, "custom", Len(trackingEvents) + 1, ApiOk("custom"))
  /\ UNCHANGED <<users, stripeUp, now, account, postbacks>>
  /\ UNCHANGED hookVars

\* POST /subscription/checkout: createCheckoutSession
ClientCheckout(c) ==
  /\ NextToCall(c)
  /\ \E u \in DOMAIN users :
       IF stripeUp
         THEN /\ account' = [account EXCEPT ![u].stripeCustomerId = "cus_1"]
              /\ Respond(c, "checkout", 0, [status |-> 200, body |-> "session"])
         ELSE /\ Respond(c, "checkout", 0,
                         ErrorResponse(500, "Failed to create checkout session"))
              /\ UNCHANGED account
  /\ UNCHANGED <<users, stripeUp, now, trackingEvents, postbacks>>
  /\ UNCHANGED hookVars

\* POST /payment/intent: createPaymentIntent
ClientPaymentIntent(c) ==
  /\ NextToCall(c)
  /\ \E u \in DOMAIN users :
       IF stripeUp
         THEN /\ account' = [account EXCEPT ![u].stripeCustomerId = "cus_1"]
              /\ Respond(c, "intent", 0, [status |-> 200, body |-> "clientSecret"])
         ELSE /\ Respond(c, "intent", 0,
                         ErrorResponse(500, "Failed to create payment intent"))
              /\ UNCHANGED account
  /\ UNCHANGED <<users, stripeUp, now, trackingEvents, postbacks>>
  /\ UNCHANGED hookVars

\* POST /subscription/cancel: requireSubscription, then cancelSubscription
\* sets cancel_at_period_end at the processor
ClientCancel(c) ==
  /\ NextToCall(c)
  /\ \E u \in DOMAIN users :
       IF users[u].subscriptionStatus # "active"
         THEN Respond(c, "cancel", 0,
                      ErrorResponse(403, "Active subscription required"))
         ELSE IF users[u].subscriptionId = NULL
         THEN Respond(c, "cancel", 0,
                      ErrorResponse(404, "No active subscription found"))
         ELSE IF stripeUp
         THEN Respond(c, "cancel", 0, [status |-> 200, body |-> "subscription"])
         ELSE Respond(c, "cancel", 0,
                      ErrorResponse(500, "Failed to cancel subscription"))
  /\ UNCHANGED <<users, stripeUp, now, trackingEvents, account, postbacks>>
  /\ UNCHANGED hookVars

\* PUT /user/profile
ClientProfile(c) ==
  /\ NextToCall(c)
  /\ \E u \in DOMAIN users :
       /\ account' = [account EXCEPT ![u].name = "renamed"]
       /\ Respond(c, "profile", 0, [status |-> 200, body |-> "user"])
  /\ UNCHANGED <<users, stripeUp, now, trackingEvents, postbacks>>
  /\ UNCHANGED hookVars

\* POST /admin/tracking/retry: the findMany of retryFailedPostbacks
RetryStart(c) ==
  /\ NextToCall(c)
  /\ \E batch \in failedEvents(trackingEvents, now) :
       loc' = [loc EXCEPT ![c] = [NoLoc EXCEPT !.route = "retry", !.batch = batch]]
  /\ cpc' = [cpc EXCEPT ![c] = "retryNext"]
  /\ UNCHANGED <<users, stripeUp, now, trackingEvents, account, postbacks, cresp>>
  /\ UNCHANGED hookVars

\* one turn of the retry loop up to its next await; the loop works on the
\* rows as findMany returned them, so only the fields no one updates are read
RetryNext(c) ==
  /\ cpc[c] = "retryNext"
  /\ IF loc[c].batch = <<>>
       THEN /\ Respond(c, "retry", 0, ApiOk("retry"))
            /\ UNCHANGED postbacks
       ELSE LET i == Head(loc[c].batch)
                event == trackingEvents[i]
            IN IF ~retrySends(event)
                 THEN /\ loc' = [loc EXCEPT ![c].batch = Tail(@)]
                      /\ UNCHANGED <<cpc, cresp, postbacks>>
                 ELSE /\ postbacks' = Append(postbacks,
                                             [row |-> i, query |-> retryParams(event)])
                      /\ \E outcome \in TrackerOutcomes :
                           LET sent == sendPostback(outcome)
                           IN IF sent.kind = "threw"
                                THEN Respond(c, "retry", 0,
                                             ApiCatch("retry", PostbackError))
                                ELSE IF retryWrites(sent.value)
                                THEN /\ loc' = [loc EXCEPT ![c].outcome = outcome,
                                                           ![c].success = TRUE]
                                     /\ cpc' = [cpc EXCEPT ![c] = "retryUpdate"]
                                     /\ UNCHANGED cresp
                                ELSE /\ loc' = [loc EXCEPT ![c].outcome = NoOutcome,
                                                           ![c].success = FALSE,
                                                           ![c].batch = Tail(@)]
                                     /\ UNCHANGED <<cpc, cresp>>
  /\ UNCHANGED <<users, stripeUp, now, trackingEvents, account>>
  /\ UNCHANGED hookVars

\* the update of the retry loop after a successful postback
RetryUpdate(c) ==
  /\ cpc[c] = "retryUpdate"
  /\ trackingEvents' = markSent(trackingEvents, Head(loc[c].batch), now)
  /\ loc' = [loc EXCEPT ![c].outcome = NoOutcome, ![c].success = FALSE,
                        ![c].batch = Tail(@)]
  /\ cpc' = [cpc EXCEPT ![c] = "retryNext"]
  /\ UNCHANGED <<users, stripeUp, now, account, postbacks, cresp>>
  /\ UNCHANGED hookVars

ApiNext ==
  \/ \E c \in Calls : Register(c)
  \/ \E c \in Calls : SubscribeStart(c)
  \/ \E c \in Calls : StripeSubscribe(c)
  \/ \E c \in Calls : UpdateUserSub(c)
  \/ \E c \in Calls : TrackLookup(c)
  \/ \E c \in Calls : TrackCreate(c)
  \/ \E c \in Calls : TrackSend(c)
  \/ \E c \in Calls : TrackUpdate(c)
  \/ \E c \in Calls : CustomEvent(c)
  \/ \E c \in Calls : ClientCheckout(c)
  \/ \E c \in Calls : ClientPaymentIntent(c)
  \/ \E c \in Calls : ClientCancel(c)
  \/ \E c \in Calls : ClientProfile(c)
  \/ \E c \in Calls : RetryStart(c)
  \/ \E c \in Calls : RetryNext(c)
  \/ \E c \in Calls : RetryUpdate(c)

ApiSpec == ApiInit /\ [][ApiNext]_vars

\* ========================================= the sweeper against a backlog
MaxTicks == 1        \* how often the clock moves on by 24 hours
MaxPostbacks == 2    \* no further invocation once this many retries were sent

\* createdAt of a row older than the window, of one exactly 24 hours old at
\* the first reading of the clock, and that reading
OldDate == 1
FreshDate == 2
SweepStart == FreshDate + RetryWindow

\* rows as trackRegistration, trackPurchase (invoice of 999, trial invoice
\* of 0) and trackCustomEvent leave them: unsent after a failed postback,
\* never sent for a custom event, sent after a delivered one
BacklogRows ==
  {registrationRow("u1", "click_a", OldDate),
   registrationRow("u1", "click_a", FreshDate),
   purchaseRow("u1", "click_a", 999, InvoiceCurrency, FreshDate),
   purchaseRow("u1", "click_a", 0, InvoiceCurrency, FreshDate),
   customRow("custom", CustomClick, FreshDate),
   updateTrackingEvent(<<registrationRow("u1", "click_a", FreshDate)>>, 1, TRUE,
                       FreshDate + 1)[1]}

\* n custom events tracked between an old failed registration and a recent one
Filled(n) ==
  <<registrationRow("u1", "click_a", OldDate)>>
    \o [i \in 1..n |-> customRow("custom", CustomClick, FreshDate)]
    \o <<registrationRow("u1", "click_a", FreshDate)>>

Backlogs ==
  {<<r>> : r \in BacklogRows}
    \cup {<<r, q>> : r \in BacklogRows, q \in BacklogRows}
    \cup {Filled(RetryBatch - 1), Filled(RetryBatch)}

\* one operator posts to /admin/tracking/retry again and again
Sweepers == {1}

SweepInit ==
  /\ webhookEvents = <<>>
  /\ users = [u \in ExistingUsers |-> NewUser]
  /\ payments = <<>>
  /\ stripeUp = TRUE
  /\ now = SweepStart
  /\ catalog = CheckoutEvents
  /\ pc = [r \in Reqs |-> "idle"]
  /\ rq = [r \in Reqs |-> [sig |-> NULL, eventId |-> NULL]]
  /\ herr = [r \in Reqs |-> NULL]
  /\ created = [r \in Reqs |-> FALSE]
  /\ result = [r \in Reqs |-> Pending]
  /\ resp = [r \in Reqs |-> NoResponse]
  /\ handlerCalls = [e \in DOMAIN catalog |-> 0]
  /\ rowUpdates = <<>>
  /\ account = [u \in ExistingUsers |-> Account("a@x.io", "click_a")]
  /\ trackingEvents \in Backlogs
  /\ postbacks = <<>>
  /\ cpc = [c \in Calls |-> "idle"]
  /\ loc = [c \in Calls |-> NoLoc]
  /\ cresp = [c \in Calls |-> NoResponse]
  /\ sessions = {}

\* the next POST /admin/tracking/retry
Sweep(c) ==
  /\ Len(postbacks) < MaxPostbacks
  /\ RetryStart(c)

\* the operator has the answer and may post again
Reinvoke(c) ==
  /\ cpc[c] = "done"
  /\ cpc' = [cpc EXCEPT ![c] = "idle"]
  /\ loc' = [loc EXCEPT ![c] = NoLoc]
  /\ cresp' = [cresp EXCEPT ![c] = NoResponse]
  /\ UNCHANGED <<users, stripeUp, now, trackingEvents, account, postbacks>>
  /\ UNCHANGED hookVars

\* 24 hours pass
Tick ==
  /\ now < SweepStart + MaxTicks * RetryWindow
  /\ now' = now + RetryWindow
  /\ UNCHANGED <<users, stripeUp, trackingEvents, account, postbacks, cpc, loc, cresp>>
  /\ UNCHANGED hookVars

SweepNext ==
  \/ \E c \in Sweepers : Sweep(c)
  \/ \E c \in Sweepers : RetryNext(c)
  \/ \E c \in Sweepers : RetryUpdate(c)
  \/ \E c \in Sweepers : Reinvoke(c)
  \/ Tick

SweepSpec == SweepInit /\ [][SweepNext]_vars

\* the sweeper's own steps, and the step in which the tracker answers a
\* retried postback with 200
SweepStep ==
  \E c \in Sweepers : Sweep(c) \/ RetryNext(c) \/ RetryUpdate(c) \/ Reinvoke(c)

ResendSucceeds ==
  \E c \in Sweepers : RetryNext(c) /\ cpc'[c] = "retryUpdate"

\* the sweeper keeps running, and a tracker that is asked again and again
\* answers 200 again and again
FairSweepSpec ==
  SweepSpec /\ WF_vars(SweepStep) /\ SF_vars(ResendSucceeds)

\* ============================================================ admin routes
\* process.env.ADMIN_EMAIL
AdminEmail == "admin@x.io"

\* GET routes (dashboard, users, analytics, logs, export) read only
AdminRoutes == {"admin/read", "admin/subscription", "admin/delete", "retry"}

\* req.params.userId
AdminTargets == {"u1", NewUserId}

\* a gate that lets every signed-in user pass
requireAdmin_anyUser(acc, userId) == userId \in DOMAIN acc

\* requireAdmin: the findUnique and the comparison with ADMIN_EMAIL
requireAdmin(acc, userId) ==
  /\ userId \in DOMAIN acc
  /\ acc[userId].email = AdminEmail

\* without a key
Without(f, k) == [x \in DOMAIN f \ {k} |-> f[x]]

\* two users are registered, the first of them possibly with the admin
\* email; one registration row had its postback fail
AdminInit ==
  /\ webhookEvents = <<>>
  /\ users = [u \in AdminTargets |-> NewUser]
  /\ payments = <<>>
  /\ stripeUp = TRUE
  /\ now = SweepStart
  /\ catalog = CheckoutEvents
  /\ pc = [r \in Reqs |-> "idle"]
  /\ rq = [r \in Reqs |-> [sig |-> NULL, eventId |-> NULL]]
  /\ herr = [r \in Reqs |-> NULL]
  /\ created = [r \in Reqs |-> FALSE]
  /\ result = [r \in Reqs |-> Pending]
  /\ resp = [r \in Reqs |-> NoResponse]
  /\ handlerCalls = [e \in DOMAIN catalog |-> 0]
  /\ rowUpdates = <<>>
  /\ \E email \in {AdminEmail, "a@x.io"} :
       account = ("u1" :> Account(email, NULL)) @@ (NewUserId :> Account("b@x.io", "click_r"))
  /\ trackingEvents = <<registrationRow(NewUserId, "click_r", FreshDate)>>
  /\ postbacks = <<>>
  /\ cpc = [c \in Calls |-> "idle"]
  /\ loc = [c \in Calls |-> NoLoc]
  /\ cresp = [c \in Calls |-> NoResponse]
  /\ sessions = {}

\* authenticate(): the token names a session of a user, or there is no
\* token, no such session (also after the user was deleted) or it expired
Authenticate(c) ==
  /\ NextToCall(c)
  /\ \E route \in AdminRoutes, session \in AdminTargets \cup {NULL} :
       IF session \in DOMAIN account
         THEN /\ loc' = [loc EXCEPT ![c] = [NoLoc EXCEPT !.route = route,
                                                        !.userId = session]]
              /\ cpc' = [cpc EXCEPT ![c] = "requireAdmin"]
              /\ UNCHANGED cresp
         ELSE Respond(c, route, 0, ErrorResponse(401, "Authentication required"))
  /\ UNCHANGED <<users, stripeUp, now, trackingEvents, account, postbacks>>
  /\ UNCHANGED hookVars

RequireAdmin(c) ==
  /\ cpc[c] = "requireAdmin"
  /\ IF requireAdmin(account, loc[c].userId)
       THEN /\ cpc' = [cpc EXCEPT ![c] = "admin"]
            /\ UNCHANGED <<loc, cresp>>
       ELSE Respond(c, loc[c].route, 0, ErrorResponse(403, "Admin access required"))
  /\ UNCHANGED <<users, stripeUp, now, trackingEvents, account, postbacks>>
  /\ UNCHANGED hookVars

\* the GET routes
AdminRead(c) ==
  /\ cpc[c] = "admin"
  /\ loc[c].route = "admin/read"
  /\ Respond(c, "admin/read", 0, [status |-> 200, body |-> "report"])
  /\ UNCHANGED <<users, stripeUp, now, trackingEvents, account, postbacks>>
  /\ UNCHANGED hookVars

\* PUT /admin/users/:userId/subscription with { status: 'active', plan: 'monthly' }
AdminUpdateSubscription(c) ==
  /\ cpc[c] = "admin"
  /\ loc[c].route = "admin/subscription"
  /\ \E target \in AdminTargets :
       IF target \in DOMAIN users
         THEN /\ users' = [users EXCEPT ![target].subscriptionStatus = "active",
                                        ![target].subscriptionPlan = "monthly"]
              /\ Respond(c, "admin/subscription", 0,
                         [status |-> 200, body |-> "Subscription updated"])
         ELSE /\ Respond(c, "admin/subscription", 0,
                         ErrorResponse(500, "Failed to update subscription"))
              /\ UNCHANGED users
  /\ UNCHANGED <<stripeUp, now, trackingEvents, account, postbacks>>
  /\ UNCHANGED hookVars

\* DELETE /admin/users/:userId; the user's sessions go with the user
AdminDeleteUser(c) ==
  /\ cpc[c] = "admin"
  /\ loc[c].route = "admin/delete"
  /\ \E target \in AdminTargets :
       IF target \in DOMAIN users
         THEN /\ users' = Without(users, target)
              /\ account' = Without(account, target)
              /\ Respond(c, "admin/delete", 0,
                         [status |-> 200, body |-> "User deleted successfully"])
         ELSE /\ Respond(c, "admin/delete", 0, ErrorResponse(404, "User not found"))
              /\ UNCHANGED <<users, account>>
  /\ UNCHANGED <<stripeUp, now, trackingEvents, postbacks>>
  /\ UNCHANGED hookVars

\* POST /admin/tracking/retry: the findMany of retryFailedPostbacks
AdminRetry(c) ==
  /\ cpc[c] = "admin"
  /\ loc[c].route = "retry"
  /\ \E batch \in failedEvents(trackingEvents, now) :
       loc' = [loc EXCEPT ![c] = [NoLoc EXCEPT !.route = "retry", !.batch = batch]]
  /\ cpc' = [cpc EXCEPT ![c] = "retryNext"]
  /\ UNCHANGED <<users, stripeUp, now, trackingEvents, account, postbacks, cresp>>
  /\ UNCHANGED hookVars

\* PUT /user/profile with an email, by a signed-in user
ChangeEmail ==
  /\ \E u \in DOMAIN account, email \in {AdminEmail, "a@x.io"} :
       /\ \A v \in DOMAIN account : account[v].email # email
       /\ account' = [account EXCEPT ![u].email = email]
  /\ UNCHANGED <<users, stripeUp, now, trackingEvents, postbacks, cpc, loc, cresp>>
  /\ UNCHANGED hookVars

AdminNext ==
  \/ \E c \in Calls : Authenticate(c)
  \/ \E c \in Calls : RequireAdmin(c)
  \/ \E c \in Calls : AdminRead(c)
  \/ \E c \in Calls : AdminUpdateSubscription(c)
  \/ \E c \in Calls : AdminDeleteUser(c)
  \/ \E c \in Calls : AdminRetry(c)
  \/ \E c \in Calls : RetryNext(c)
  \/ \E c \in Calls : RetryUpdate(c)
  \/ ChangeEmail

AdminSpec == AdminInit /\ [][AdminNext]_vars

\* ============================================ sessions and registration
MaxAuthCalls == 3    \* requests sent to the /auth routes
MaxDrift == 1        \* seconds the clock runs on beyond the life of a session

AuthCalls == 1..MaxAuthCalls

\* expiresAt.setDate(expiresAt.getDate() + 7), in seconds
SessionLife == 604800

\* the second in which the younger of the two sessions at hand was created
AuthStart == 2

InvalidCredentials == "Invalid credentials"
UniqueEmail == "Unique constraint failed on the fields: (email)"
UniqueToken == "Unique constraint failed on the fields: (token)"
RecordToDeleteNotFound == "Record to delete does not exist"

\* jwt.sign of { userId, email: '' }: besides the payload the token holds
\* the second it was issued in (iat) and is signed with a fixed secret, so
\* it is determined by the user and that second
generateToken(userId, t) == [userId |-> userId, iat |-> t]

\* the row createSession inserts at second t
sessionRow(userId, t) ==
  [userId |-> userId, token |-> generateToken(userId, t), expiresAt |-> t + SessionLife]

tokenUnique(ss, token) == \A s \in ss : s.token # token

\* validateSession: the user of the session found by token, unless it expired
validateSession(ss, token, t) ==
  LET found == {s \in ss : s.token = token}
  IN IF found = {} \/ \A s \in found : s.expiresAt < t
       THEN NULL
       ELSE (CHOOSE s \in found : TRUE).userId

\* a User table without the unique index on email
emailUnique_unchecked(acc, email) == TRUE

emailUnique(acc, email) == \A u \in DOMAIN acc : acc[u].email # email

\* body('email').isEmail().normalizeEmail(): the address in lower case
normalizeEmail(email) ==
  CASE email = "B@x.io" -> "b@x.io"
    [] email = "A@x.io" -> "a@x.io"
    [] OTHER -> email

\* the uuid of the next User row
newUserId(acc) == IF NewUserId \in DOMAIN acc THEN "u3" ELSE NewUserId

RegisterEmails == {"b@x.io", "B@x.io"}
LoginEmails == {"a@x.io"}
InitTokens == {generateToken("u1", AuthStart - 1), generateToken("u1", AuthStart)}

\* variables no /auth route writes
authFrame == <<webhookEvents, payments, stripeUp, catalog, pc, rq, herr, created,
               result, resp, handlerCalls, rowUpdates>>

\* user u1 holds two sessions, one created a second before the other; the
\* requests are registrations of one new address, logins of u1, and logouts
\* and reads with the tokens of u1
AuthInit ==
  /\ webhookEvents = <<>>
  /\ users = [u \in ExistingUsers |-> NewUser]
  /\ payments = <<>>
  /\ stripeUp = TRUE
  /\ now = AuthStart
  /\ catalog = CheckoutEvents
  /\ pc = [r \in Reqs |-> "idle"]
  /\ rq = [r \in Reqs |-> [sig |-> NULL, eventId |-> NULL]]
  /\ herr = [r \in Reqs |-> NULL]
  /\ created = [r \in Reqs |-> FALSE]
  /\ result = [r \in Reqs |-> Pending]
  /\ resp = [r \in Reqs |-> NoResponse]
  /\ handlerCalls = [e \in DOMAIN catalog |-> 0]
  /\ rowUpdates = <<>>
  /\ account = [u \in ExistingUsers |-> Account("a@x.io", NULL)]
  /\ trackingEvents = <<>>
  /\ postbacks = <<>>
  /\ cpc = [c \in AuthCalls |-> "idle"]
  /\ loc = [c \in AuthCalls |-> NoLoc]
  /\ cresp = [c \in AuthCalls |-> NoResponse]
  /\ sessions = {sessionRow("u1", AuthStart - 1), sessionRow("u1", AuthStart)}

\* the request is over: its caller gets the answer; the route, the email and
\* the token it came with stay on record
AuthRespond(c, route, email, token, answer) ==
  /\ cpc' = [cpc EXCEPT ![c] = "done"]
  /\ cresp' = [cresp EXCEPT ![c] = answer]
  /\ loc' = [loc EXCEPT ![c] = [NoLoc EXCEPT !.route = route, !.email = email,
                                             !.token = token]]

\* POST /auth/register without a click id: normalizeEmail and the findUnique
\* of AuthService.register
RegisterStart(c) ==
  /\ NextToCall(c)
  /\ \E raw \in RegisterEmails :
       LET email == normalizeEmail(raw)
       IN IF \E u \in DOMAIN account : account[u].email = email
            THEN AuthRespond(c, "register", email, NoToken, ApiCatch("register", UserExists))
            ELSE /\ loc' = [loc EXCEPT ![c] = [NoLoc EXCEPT !.route = "register",
                                                           !.email = email,
                                                           !.clickId = NULL]]
                 /\ cpc' = [cpc EXCEPT ![c] = "createUser"]
                 /\ UNCHANGED cresp
  /\ UNCHANGED <<users, now, account, sessions, trackingEvents, postbacks>>
  /\ UNCHANGED authFrame

\* AuthService.register: hashPassword and prisma.user.create
CreateUser(c) ==
  /\ cpc[c] = "createUser"
  /\ IF ~emailUnique(account, loc[c].email)
       THEN /\ AuthRespond(c, "register", loc[c].email, NoToken,
                           ApiCatch("register", UniqueEmail))
            /\ UNCHANGED <<users, account>>
       ELSE /\ users' = (newUserId(account) :> NewUser) @@ users
            /\ account' = (newUserId(account) :> Account(loc[c].email, loc[c].clickId))
                            @@ account
            /\ loc' = [loc EXCEPT ![c].userId = newUserId(account)]
            /\ cpc' = [cpc EXCEPT ![c] = "createSession"]
            /\ UNCHANGED cresp
  /\ UNCHANGED <<now, sessions, trackingEvents, postbacks>>
  /\ UNCHANGED authFrame

\* POST /auth/login: findUnique by email, verifyPassword and the update of
\* lastLoginAt; valid tells whether the password sent matches the stored hash
Login(c) ==
  /\ NextToCall(c)
  /\ \E email \in LoginEmails, valid \in BOOLEAN :
       LET found == {u \in DOMAIN account : account[u].email = email}
       IN IF found = {} \/ ~valid
            THEN AuthRespond(c, "login", email, NoToken,
                             ApiCatch("login", InvalidCredentials))
            ELSE /\ loc' = [loc EXCEPT ![c] = [NoLoc EXCEPT !.route = "login",
                                                           !.email = email,
                                                           !.userId = CHOOSE u \in found : TRUE]]
                 /\ cpc' = [cpc EXCEPT ![c] = "createSession"]
                 /\ UNCHANGED cresp
  /\ UNCHANGED <<users, now, account, sessions, trackingEvents, postbacks>>
  /\ UNCHANGED authFrame

\* createSession of register and login; register goes on to trackRegistration
CreateSession(c) ==
  /\ cpc[c] = "createSession"
  /\ LET row == sessionRow(loc[c].userId, now)
     IN IF ~tokenUnique(sessions, row.token)
          THEN /\ AuthRespond(c, loc[c].route, loc[c].email, NoToken,
                              ApiCatch(loc[c].route, UniqueToken))
               /\ UNCHANGED sessions
          ELSE /\ sessions' = sessions \cup {row}
               /\ IF loc[c].route = "register"
                    THEN /\ cpc' = [cpc EXCEPT ![c] = "trackLookup"]
                         /\ loc' = [loc EXCEPT ![c].token = row.token]
                         /\ UNCHANGED cresp
                    ELSE AuthRespond(c, "login", loc[c].email, row.token, ApiOk("login"))
  /\ UNCHANGED <<users, now, account, trackingEvents, postbacks>>
  /\ UNCHANGED authFrame

\* authenticate() as the routes behind it see it: the answer it refuses a
\* request with, or NoResponse when it calls next()
authenticate(ss, token, t) ==
  IF token = NoToken THEN ErrorResponse(401, "Authentication required")
  ELSE IF validateSession(ss, token, t) = NULL
  THEN ErrorResponse(401, "Invalid or expired token")
  ELSE NoResponse

\* POST /auth/logout: authenticate()
LogoutStart(c) ==
  /\ NextToCall(c)
  /\ \E token \in InitTokens \cup {NoToken} :
       IF authenticate(sessions, token, now) # NoResponse
         THEN AuthRespond(c, "logout", NULL, token, authenticate(sessions, token, now))
         ELSE /\ loc' = [loc EXCEPT ![c] =
                           [NoLoc EXCEPT !.route = "logout", !.token = token,
                                         !.userId = validateSession(sessions, token, now)]]
              /\ cpc' = [cpc EXCEPT ![c] = "sessionDelete"]
              /\ UNCHANGED cresp
  /\ UNCHANGED <<users, now, account, sessions, trackingEvents, postbacks>>
  /\ UNCHANGED authFrame

\* AuthService.logout: prisma.session.delete by token
SessionDelete(c) ==
  /\ cpc[c] = "sessionDelete"
  /\ IF tokenUnique(sessions, loc[c].token)
       THEN /\ AuthRespond(c, "logout", NULL, loc[c].token,
                           ApiCatch("logout", RecordToDeleteNotFound))
            /\ UNCHANGED sessions
       ELSE /\ sessions' = {s \in sessions : s.token # loc[c].token}
            /\ AuthRespond(c, "logout", NULL, loc[c].token, ApiOk("logout"))
  /\ UNCHANGED <<users, now, account, trackingEvents, postbacks>>
  /\ UNCHANGED authFrame

\* GET /auth/me: authenticate(), then getUserById, which reads a User row
\* that no /auth route removes
GetMe(c) ==
  /\ NextToCall(c)
  /\ \E token \in InitTokens \cup {NoToken} :
       AuthRespond(c, "me", NULL, token,
                   IF authenticate(sessions, token, now) # NoResponse
                     THEN authenticate(sessions, token, now)
                     ELSE IF validateSession(sessions, token, now) \in DOMAIN account
                     THEN ApiOk("me")
                     ELSE ErrorResponse(404, "User not found"))
  /\ UNCHANGED <<users, now, account, sessions, trackingEvents, postbacks>>
  /\ UNCHANGED authFrame

\* time passes: a second, or the life of a session
AuthTick ==
  /\ \E d \in {1, SessionLife} :
       /\ now + d <= AuthStart + SessionLife + MaxDrift
       /\ d = 1 => (now - AuthStart) % SessionLife < MaxDrift
       /\ now' = now + d
  /\ UNCHANGED <<users, account, sessions, trackingEvents, postbacks, cpc, loc, cresp>>
  /\ UNCHANGED authFrame

AuthNext ==
  \/ \E c \in AuthCalls : RegisterStart(c)
  \/ \E c \in AuthCalls : CreateUser(c)
  \/ \E c \in AuthCalls : Login(c)
  \/ \E c \in AuthCalls : CreateSession(c)
  \/ \E c \in AuthCalls : TrackLookup(c)
  \/ \E c \in AuthCalls : LogoutStart(c)
  \/ \E c \in AuthCalls : SessionDelete(c)
  \/ \E c \in AuthCalls : GetMe(c)
  \/ AuthTick

AuthSpec == AuthInit /\ [][AuthNext]_vars

\* ================================================================== claims
RowsOf(e) == {i \in DOMAIN webhookEvents : webhookEvents[i].eventId = e}
ValidDelivery(r) == pc[r] # "idle" /\ rq[r].sig = "ok"
Arrives(r) == pc[r] = "idle" /\ pc'[r] # "idle"
IsHandledType(t) == t \in HandledTypes

\* C1: across validly signed deliveries every event id has at most one
\* WebhookEvent row and at most one handler invocation, and a delivery that
\* arrives when the row of its event id already exists (whatever became of the
\* earlier delivery) returns success at the dedup lookup: no handler runs and
\* no table changes.
C1_AtMostOnce ==
  \A e \in DOMAIN catalog : Cardinality(RowsOf(e)) <= 1 /\ handlerCalls[e] <= 1

C1_LaterDelivery ==
  \A r \in Reqs :
    (Arrives(r) /\ rq'[r].sig = "ok" /\ RowsOf(rq'[r].eventId) # {}) =>
      /\ pc'[r] = "done"
      /\ result'[r] = Returned
      /\ resp'[r] = Received
      /\ UNCHANGED <<webhookEvents, users, payments, handlerCalls>>

C1_IdempotentRedelivery == [](C1_AtMostOnce) /\ [][C1_LaterDelivery]_vars

\* the first delivery's handler threw, the redelivery was answered as a duplicate
C1_Witness ==
  \E r1, r2 \in Reqs :
    /\ r1 # r2 /\ ValidDelivery(r1) /\ ValidDelivery(r2)
    /\ rq[r1].eventId = rq[r2].eventId
    /\ created[r1] /\ result[r1].kind = "threw"
    /\ pc[r2] = "done" /\ ~created[r2] /\ resp[r2] = Received

\* C2: a delivery whose signature does not verify ends in the same step with
\* the invalid-signature error and a 400 answer, and no WebhookEvent, User or
\* Payment row is created or changed.
C2_Rejected ==
  \A r \in Reqs :
    (Arrives(r) /\ rq'[r].sig = "bad") =>
      /\ pc'[r] = "done"
      /\ result'[r] = Threw(InvalidSignature)
      /\ resp'[r] = ErrorResponse(400, InvalidSignature)
      /\ UNCHANGED <<webhookEvents, users, payments, handlerCalls>>

C2_SignatureRejection == [][C2_Rejected]_vars

\* a forged delivery was refused although a row of the claimed id exists
C2_Witness ==
  \E r \in Reqs :
    /\ pc[r] = "done" /\ rq[r].sig = "bad"
    /\ resp[r].status = 400
    /\ RowsOf(rq[r].eventId) # {}

\* C3: when a delivery lost the insert race for its event id (its create hit
\* the eventId constraint), exactly one row of that id exists, it was inserted
\* by another delivery of the same id, and the handler of the event is invoked
\* exactly once; in every state there is at most one row and one invocation
\* per event id.
C3_UniqueInsert ==
  /\ \A e \in DOMAIN catalog : Cardinality(RowsOf(e)) <= 1 /\ handlerCalls[e] <= 1
  /\ \A r \in Reqs :
       (ValidDelivery(r) /\ result[r] = Threw(UniqueEventId)) =>
         LET e == rq[r].eventId IN
           /\ Cardinality(RowsOf(e)) = 1
           /\ Cardinality({w \in Reqs : ValidDelivery(w) /\ rq[w].eventId = e
                                          /\ created[w]}) = 1
           /\ ~created[r]
           /\ handlerCalls[e] = IF IsHandledType(catalog[e].type) THEN 1 ELSE 0

\* both deliveries ran to their end: one inserted and handled, one lost
C3_Witness ==
  \E r1, r2 \in Reqs :
    /\ r1 # r2 /\ ValidDelivery(r1) /\ ValidDelivery(r2)
    /\ rq[r1].eventId = rq[r2].eventId
    /\ created[r1] /\ pc[r1] = "done" /\ result[r1] = Returned
    /\ IsHandledType(catalog[rq[r1].eventId].type)
    /\ result[r2] = Threw(UniqueEventId)

\* C4 (as claimed): a create attempted while a row of the event id exists
\* makes handleWebhook return normally and the route answer 200 received.
C4_LoserStep ==
  \A r \in Reqs :
    (pc[r] = "create" /\ pc'[r] \notin {"create", "crashed"}
       /\ RowsOf(rq[r].eventId) # {}) =>
      (result'[r] = Returned /\ resp'[r] = Received)

C4_LoserAnsweredAsDuplicate == [][C4_LoserStep]_vars

\* C5: a delivery that inserted its row and ran to the end of handleWebhook
\* leaves the row processed; when its handler threw, the row's error is the
\* exception's message and handleWebhook re-throws that exception, and when
\* the handler returned, the error is null and handleWebhook returns.
C5_MarkAndRethrow ==
  \A r \in Reqs :
    (pc[r] = "done" /\ ValidDelivery(r) /\ created[r]) =>
      /\ RowsOf(rq[r].eventId) # {}
      /\ \A i \in RowsOf(rq[r].eventId) :
           /\ webhookEvents[i].processed
           /\ webhookEvents[i].error = herr[r]
      /\ result[r] = IF herr[r] = NULL THEN Returned ELSE Threw(herr[r])

C5_Witness ==
  \E r \in Reqs :
    /\ pc[r] = "done" /\ ValidDelivery(r) /\ created[r]
    /\ herr[r] = RecordNotFound
    /\ \E i \in RowsOf(rq[r].eventId) : webhookEvents[i].error = RecordNotFound

\* C6 (as claimed): success and duplicates answer 200 received, a missing or
\* invalid signature answers 400 with the error, and an exception thrown by
\* a type-specific handler answers 500.
C6_StatusMapping ==
  \A r \in Reqs :
    pc[r] = "done" =>
      /\ result[r] = Returned => resp[r] = Received
      /\ rq[r].sig = "missing" => resp[r] = ErrorResponse(400, MissingSignature)
      /\ rq[r].sig = "bad" => resp[r] = ErrorResponse(400, InvalidSignature)
      /\ (created[r] /\ result[r].kind = "threw") => resp[r].status = 500

\* the handler of event p would run to its end without throwing now
HandlerWouldSucceed(p) ==
  LET path == IF IsHandledType(p.type) THEN firstAwait(p) ELSE "mark"
      uid  == handlerUserId(p)
      needsRetrieve == path = "retrieve"
      needsUser == path = "updateUser"
                   \/ (path = "retrieve" /\ afterRetrieve(p) = "updateUser")
      needsPayment == (path = "retrieve" /\ afterRetrieve(p) = "createPayment")
                      \/ (needsUser /\ afterUpdateUser(p) = "createPayment")
  IN /\ needsRetrieve => stripeUp
     /\ needsUser => uid \in DOMAIN users
     /\ needsPayment => (uid \in DOMAIN users /\ stripePaymentIdUnique(payments, p.pi))

\* C7 (as claimed): a redelivery of an event whose recorded handler run threw,
\* arriving when the handler would succeed, runs the handler again: it does
\* not end at the dedup lookup.
C7_RedeliveryStep ==
  \A r \in Reqs :
    (/\ Arrives(r) /\ rq'[r].sig = "ok"
     /\ \E i \in RowsOf(rq'[r].eventId) : webhookEvents[i].error # NULL
     /\ HandlerWouldSucceed(catalog[rq'[r].eventId])) =>
      pc'[r] # "done"

C7_RedeliveryRetries == [][C7_RedeliveryStep]_vars

\* C8: whenever a handler has been invoked for an event, or a delivery is
\* past its insert, the row of the event exists; a step that changes User or
\* Payment is taken by a delivery whose row exists; and a delivery that
\* crashed after its insert leaves its row with processed=false, error null.
HandlerPcs == {"retrieve", "updateUser", "createPayment", "mark", "markFailed"}

C8_RowFirst ==
  /\ \A e \in DOMAIN catalog : handlerCalls[e] > 0 => RowsOf(e) # {}
  /\ \A r \in Reqs : pc[r] \in HandlerPcs => RowsOf(rq[r].eventId) # {}
  /\ \A r \in Reqs :
       (pc[r] = "crashed" /\ created[r]) =>
         /\ RowsOf(rq[r].eventId) # {}
         /\ \A i \in RowsOf(rq[r].eventId) :
              /\ ~webhookEvents[i].processed
              /\ webhookEvents[i].processedAt = NoDate
              /\ webhookEvents[i].error = NULL

C8_WriteStep ==
  (users' # users \/ payments' # payments) =>
    \E r \in Reqs : pc[r] \in HandlerPcs /\ pc'[r] # pc[r]
                    /\ RowsOf(rq[r].eventId) # {}

C8_PersistBeforeDispatch == [](C8_RowFirst) /\ [][C8_WriteStep]_vars

\* a crash after the checkout handler wrote the user row
C8_Witness ==
  \E r \in Reqs :
    /\ pc[r] = "crashed" /\ created[r]
    /\ rq[r].eventId = "evt_co"
    /\ users["u1"].subscriptionId = "sub_2"
    /\ \E i \in RowsOf(rq[r].eventId) : ~webhookEvents[i].processed

\* C9: rows are never deleted and keep their event id, processed never goes
\* back to false, processedAt is set exactly when processed is true, error
\* is set only when processed is true, and a row is updated at most once.
C9_RowShape ==
  /\ Len(rowUpdates) = Len(webhookEvents)
  /\ \A i \in DOMAIN webhookEvents :
       /\ (webhookEvents[i].processedAt # NoDate) <=> webhookEvents[i].processed
       /\ webhookEvents[i].error # NULL => webhookEvents[i].processed
       /\ rowUpdates[i] <= 1

C9_RowStep ==
  /\ Len(webhookEvents') >= Len(webhookEvents)
  /\ \A i \in DOMAIN webhookEvents :
       /\ webhookEvents'[i].eventId = webhookEvents[i].eventId
       /\ webhookEvents[i].processed => webhookEvents'[i].processed

C9_Lifecycle == [](C9_RowShape) /\ [][C9_RowStep]_vars

C9_Witness ==
  \E i \in DOMAIN webhookEvents :
    /\ webhookEvents[i].processed /\ webhookEvents[i].error = NULL
    /\ rowUpdates[i] = 1
    /\ \E r \in Reqs : pc[r] = "done" /\ ~created[r] /\ ValidDelivery(r)
                       /\ rq[r].eventId = webhookEvents[i].eventId

\* C10: a validly signed event of a type outside the six handled ones is
\* stored and marked processed with no error, handleWebhook returns and the
\* route answers 200, no handler is invoked, and no step of such a delivery
\* changes User or Payment.
C10_Accepted ==
  \A r \in Reqs :
    (pc[r] = "done" /\ ValidDelivery(r) /\ created[r]
       /\ ~IsHandledType(catalog[rq[r].eventId].type)) =>
      /\ RowsOf(rq[r].eventId) # {}
      /\ \A i \in RowsOf(rq[r].eventId) :
           webhookEvents[i].processed /\ webhookEvents[i].error = NULL
      /\ result[r] = Returned
      /\ resp[r] = Received

C10_NoMutation ==
  \A r \in Reqs :
    (pc'[r] # pc[r] /\ rq'[r].sig = "ok"
       /\ ~IsHandledType(catalog[rq'[r].eventId].type)) =>
      UNCHANGED <<users, payments>>

C10_ForwardCompatible == [](C10_Accepted) /\ [][C10_NoMutation]_vars

C10_Witness ==
  \E r \in Reqs :
    /\ pc[r] = "done" /\ ValidDelivery(r) /\ created[r]
    /\ ~IsHandledType(catalog[rq[r].eventId].type)
    /\ resp[r] = Received

\* ---------------------------------------------------- subscription state
SubscriptionTypes ==
  {"customer.subscription.created", "customer.subscription.updated",
   "customer.subscription.deleted"}

\* the status a subscription event stands for
ImpliedStatus(p) ==
  IF p.type = "customer.subscription.deleted" THEN "canceled"
  ELSE StripeSubs[p.sub].status

MaxOf(S) == CHOOSE m \in S : \A x \in S : x <= m

Quiescent == \A r \in Reqs : pc[r] \in {"idle", "done"}

\* C12 (as claimed), on behaviours whose stored events are all subscription
\* events handled without error: with no webhook in flight, every user's
\* subscriptionStatus is the one implied by the latest received subscription
\* event of that user.
C12_StatusFollowsLatestEvent ==
  (/\ Quiescent
   /\ \A i \in DOMAIN webhookEvents :
        /\ webhookEvents[i].eventType \in SubscriptionTypes
        /\ webhookEvents[i].processed /\ webhookEvents[i].error = NULL) =>
    \A u \in DOMAIN users :
      LET mine == {i \in DOMAIN webhookEvents :
                     handlerUserId(catalog[webhookEvents[i].eventId]) = u}
      IN mine # {} =>
           users[u].subscriptionStatus =
             ImpliedStatus(catalog[webhookEvents[MaxOf(mine)].eventId])

\* C13: the user write of a subscription.deleted event sets the status to
\* canceled and the end date to the event's period end (as a Date), and
\* leaves subscriptionId, subscriptionPlan and every other user alone; a
\* delivery of such an event that arrives when its row exists changes
\* nothing and is answered 200.
IsDeleted(e) == catalog[e].type = "customer.subscription.deleted"

C13_FirstDelivery ==
  \A r \in Reqs :
    (pc[r] = "updateUser" /\ pc'[r] = "mark" /\ IsDeleted(rq[r].eventId)) =>
      LET sub == StripeSubs[catalog[rq[r].eventId].sub]
          u == sub.userId
      IN /\ users'[u].subscriptionStatus = "canceled"
         /\ users'[u].subscriptionEndDate = sub.current_period_end * 1000
         /\ users'[u].subscriptionId = users[u].subscriptionId
         /\ users'[u].subscriptionPlan = users[u].subscriptionPlan
         /\ \A v \in DOMAIN users \ {u} : users'[v] = users[v]
         /\ UNCHANGED payments

C13_SecondDelivery ==
  \A r \in Reqs :
    (Arrives(r) /\ rq'[r].sig = "ok" /\ IsDeleted(rq'[r].eventId)
       /\ RowsOf(rq'[r].eventId) # {}) =>
      /\ UNCHANGED <<users, payments, webhookEvents>>
      /\ result'[r] = Returned
      /\ resp'[r] = Received

C13_DeletedTwice == [][C13_FirstDelivery /\ C13_SecondDelivery]_vars

\* evt_sd handled, then delivered again and answered as a duplicate
C13_Witness ==
  \E r1, r2 \in Reqs :
    /\ r1 # r2 /\ ValidDelivery(r1) /\ ValidDelivery(r2)
    /\ rq[r1].eventId = "evt_sd" /\ rq[r2].eventId = "evt_sd"
    /\ created[r1] /\ result[r1] = Returned
    /\ pc[r2] = "done" /\ ~created[r2] /\ resp[r2] = Received
    /\ users["u1"].subscriptionStatus = "canceled"
    /\ users["u1"].subscriptionEndDate = 5000

\* C14: for an event that names no user (no metadata.userId on the session
\* or on the subscription, or no subscription on the invoice) no step of its
\* delivery changes User or Payment, and unless the Stripe call that fetches
\* the subscription itself failed, the delivery ends with the row processed,
\* error null, a normal return and 200.
NamesNoUser(p) ==
  /\ p.type \in HandledTypes
  /\ IF p.type = "checkout.session.completed" THEN p.userId = NULL
     ELSE IF p.sub = NULL THEN TRUE
     ELSE StripeSubs[p.sub].userId = NULL

C14_NoOp ==
  \A r \in Reqs :
    (pc[r] = "done" /\ ValidDelivery(r) /\ created[r]
       /\ NamesNoUser(catalog[rq[r].eventId])
       /\ result[r] # Threw(StripeError)) =>
      /\ \A i \in RowsOf(rq[r].eventId) :
           webhookEvents[i].processed /\ webhookEvents[i].error = NULL
      /\ result[r] = Returned
      /\ resp[r] = Received

C14_NoWrite ==
  \A r \in Reqs :
    (pc'[r] # pc[r] /\ rq'[r].sig = "ok"
       /\ NamesNoUser(catalog[rq'[r].eventId])) =>
      UNCHANGED <<users, payments>>

ClientRoutes == {"subscribe", "checkout", "cancel", "profile", "intent"}
TrackingRoutes == {"register", "subscribe"}

Moves(c) == cpc'[c] # cpc[c]

\* C11 (as claimed): no step of a client request (POST /subscription/create,
\* /subscription/checkout, /subscription/cancel, /payment/intent, PUT
\* /user/profile) changes a subscription field of any user.
C11_ClientStep ==
  \A c \in Calls :
    (Moves(c) /\ loc'[c].route \in ClientRoutes) =>
      \A u \in DOMAIN users : users'[u] = users[u]

C11_OnlyWebhooksWrite == [][C11_ClientStep]_vars

\* C15: sendPostback ends by returning a boolean whatever the tracker does:
\* after the send the caller goes on to its update (trackRegistration,
\* trackPurchase) or with its loop (retry), no call is ever answered with an
\* error of the postback, and a tracking call that created its row ends
\* with the normal answer of its route.
C15_NoPostbackError ==
  \A c \in Calls :
    /\ cresp[c].body # PostbackError
    /\ (cpc[c] = "done" /\ loc[c].route \in TrackingRoutes /\ loc[c].row # 0) =>
         cresp[c] = ApiOk(loc[c].route)

C15_SendStep ==
  \A c \in Calls :
    /\ (cpc[c] = "trackSend" /\ Moves(c)) =>
         /\ cpc'[c] = "trackUpdate"
         /\ loc'[c].success \in BOOLEAN
         /\ loc'[c].success => loc'[c].outcome.kind = "response"
         /\ cresp'[c] = NoResponse
    /\ (cpc[c] = "retryNext" /\ Len(postbacks') > Len(postbacks)) =>
         /\ cpc'[c] \in {"retryNext", "retryUpdate"}
         /\ cresp'[c] = NoResponse

C15_NeverThrows == [](C15_NoPostbackError) /\ [][C15_SendStep]_vars

\* trackRegistration has sent its postback, the tracker did not answer in
\* time, and sendPostback returned false
C15_Witness ==
  \E c \in Calls :
    /\ cpc[c] = "trackUpdate"
    /\ loc[c].route = "register"
    /\ loc[c].outcome = NoAnswer("timeout")
    /\ loc[c].success = FALSE

\* C16 (as claimed): sendPostback returns true exactly when the tracker
\* answered with a status of the 2xx, 3xx or 4xx range.
C16_DeliveredBelow500 ==
  \A c \in Calls :
    cpc[c] = "trackUpdate" =>
      (loc[c].success <=>
         (loc[c].outcome.kind = "response" /\ loc[c].outcome.status \in 200..499))

\* C17: when the tracker times out or answers 5xx during trackRegistration
\* or trackPurchase with a click id, the TrackingEvent row exists from the
\* create on, the update leaves it with sentToTracker false and sentAt null,
\* and the request is answered with the normal success of its route.
TrackerFailed(outcome) ==
  outcome.kind = "timeout" \/ (outcome.kind = "response" /\ outcome.status >= 500)

C17_RowExists ==
  \A c \in Calls :
    cpc[c] \in {"trackSend", "trackUpdate"} =>
      /\ loc[c].row \in DOMAIN trackingEvents
      /\ trackingEvents[loc[c].row].subId = loc[c].clickId
      /\ trackingEvents[loc[c].row].userId = loc[c].userId

C17_UpdateStep ==
  \A c \in Calls :
    (cpc[c] = "trackUpdate" /\ Moves(c) /\ TrackerFailed(loc[c].outcome)) =>
      /\ trackingEvents'[loc[c].row].sentToTracker = FALSE
      /\ trackingEvents'[loc[c].row].sentAt = NoDate
      /\ cpc'[c] = "done"
      /\ cresp'[c] = ApiOk(loc[c].route)

C17_FailureKeepsRow == [](C17_RowExists) /\ [][C17_UpdateStep]_vars

\* POST /subscription/create has answered 200 although the postback for
\* its purchase row was not delivered
C17_Witness ==
  \E c \in Calls :
    /\ cpc[c] = "done" /\ loc[c].route = "subscribe" /\ loc[c].row # 0
    /\ trackingEvents[loc[c].row].eventType = "purchase"
    /\ ~trackingEvents[loc[c].row].sentToTracker
    /\ trackingEvents[loc[c].row].sentAt = NoDate
    /\ \E k \in DOMAIN postbacks : postbacks[k].row = loc[c].row
    /\ cresp[c] = ApiOk("subscribe")

\* C18: when no click id is passed and the user has none stored,
\* trackRegistration / trackPurchase create no row, send no postback and
\* return, so the request gets the normal answer of its route; no row is
\* ever stored without a click id.
C18_NoClickStep ==
  \A c \in Calls :
    (cpc[c] = "trackLookup" /\ Moves(c) /\ ~given(loc[c].clickId)
       /\ ~given(account[loc[c].userId].keitaroSubId)) =>
      /\ UNCHANGED <<trackingEvents, postbacks>>
      /\ cpc'[c] = "done"
      /\ cresp'[c] = ApiOk(loc[c].route)

C18_RowsHaveClick ==
  \A i \in DOMAIN trackingEvents :
    trackingEvents[i].subId \in {"click_r", "click_a", CustomClick}

C18_NoClickNoOp == [](C18_RowsHaveClick) /\ [][C18_NoClickStep]_vars

\* a registration without click id has been answered 201 and nothing was
\* stored or sent
C18_Witness ==
  \E c \in Calls :
    /\ cpc[c] = "done" /\ loc[c].route = "register" /\ loc[c].row = 0
    /\ cresp[c] = ApiOk("register")
    /\ trackingEvents = <<>> /\ postbacks = <<>>

\* C19: after the postback of trackRegistration / trackPurchase the next
\* step of the call is the update that stores the dispatcher's result in
\* sentToTracker; in every state a row has sentToTracker true exactly when
\* its sentAt is set; rows are never deleted and keep every other field.
C19_SentIffStamped ==
  \A i \in DOMAIN trackingEvents :
    trackingEvents[i].sentToTracker <=> trackingEvents[i].sentAt # NoDate

Unstamped(row) == [row EXCEPT !.sentToTracker = FALSE, !.sentAt = NoDate]

C19_Step ==
  /\ Len(trackingEvents') >= Len(trackingEvents)
  /\ \A i \in DOMAIN trackingEvents :
       Unstamped(trackingEvents'[i]) = Unstamped(trackingEvents[i])
  /\ \A c \in Calls :
       /\ (cpc[c] = "trackSend" /\ Moves(c)) => cpc'[c] = "trackUpdate"
       /\ (cpc[c] = "trackUpdate" /\ Moves(c)) =>
            trackingEvents'[loc[c].row].sentToTracker = loc[c].success

C19_SentFlagDiscipline == [](C19_SentIffStamped) /\ [][C19_Step]_vars

\* a row whose first postback failed was sent by a retry and stamped
C19_Witness ==
  /\ \E c \in Calls : cpc[c] = "done" /\ loc[c].route = "retry"
  /\ \E i \in DOMAIN trackingEvents :
       /\ trackingEvents[i].sentToTracker
       /\ trackingEvents[i].sentAt # NoDate
       /\ Cardinality({k \in DOMAIN postbacks : postbacks[k].row = i}) = 2

InWindow(row, t) == row.createdAt >= t - RetryWindow

C21_SelectStep ==
  \A c \in Calls :
    cpc[c] = "idle" /\ cpc'[c] = "retryNext" =>
      LET batch == loc'[c].batch
      IN /\ Len(batch) <= RetryBatch
         /\ \A k \in DOMAIN batch :
              /\ batch[k] \in DOMAIN trackingEvents
              /\ ~trackingEvents[batch[k]].sentToTracker
              /\ InWindow(trackingEvents[batch[k]], now)
              /\ \A m \in DOMAIN batch : batch[m] = batch[k] => m = k

C21_LoopStep ==
  \A c \in Calls :
    cpc[c] \in {"retryNext", "retryUpdate"} =>
      /\ IF loc[c].batch = <<>> THEN loc'[c].batch = <<>>
         ELSE loc'[c].batch \in {loc[c].batch, Tail(loc[c].batch)}
      /\ cpc'[c] # cpc[c] \/ loc'[c] # loc[c] =>
           \/ postbacks' = postbacks
           \/ /\ loc[c].batch # <<>>
              /\ Len(postbacks') = Len(postbacks) + 1
              /\ postbacks'[Len(postbacks')].row = Head(loc[c].batch)

C21_WindowAndBatch == [][C21_SelectStep /\ C21_LoopStep]_vars

\* more than 100 rows were unsent inside the window, the retry of a selected
\* row was answered with 200, and the old unsent row got no postback
C21_Witness ==
  /\ Len(unsentSince(trackingEvents, now - RetryWindow)) > RetryBatch
  /\ \E c \in Calls : cpc[c] = "retryUpdate"
  /\ ~trackingEvents[1].sentToTracker
  /\ ~InWindow(trackingEvents[1], now)
  /\ postbacks # <<>>
  /\ \A k \in DOMAIN postbacks : postbacks[k].row # 1

\* ---------------------------------------------------------------- C22
\* the request trackRegistration / trackPurchase sent for a row when it was
\* created
originalParams(event) ==
  IF event.eventType = "registration"
    THEN postbackParams(event.subId, RegistrationStatus, NoPayout, NULL)
    ELSE postbackParams(event.subId, PurchaseStatus, amountInDollars(event.amount),
                        event.currency)

\* the retry loop is done with the row at the head of its list
PassesHead(c) ==
  /\ cpc[c] = "retryNext"
  /\ loc[c].batch # <<>>
  /\ \/ cpc'[c] = "retryUpdate"
     \/ cpc'[c] = "retryNext" /\ loc'[c].batch = Tail(loc[c].batch)

\* C22: for every selected registration or purchase row, whatever its stored
\* amount, the sweeper sends a request with the subid, status, payout and
\* currency of the original attempt.
C22_RetriedAsOriginal ==
  [][\A c \in Calls :
       PassesHead(c)
       /\ trackingEvents[Head(loc[c].batch)].eventType \in {"registration", "purchase"}
       => postbacks' = Append(postbacks,
                              [row |-> Head(loc[c].batch),
                               query |-> originalParams(trackingEvents[Head(loc[c].batch)])])]_vars

\* ---------------------------------------------------------------- C23
\* a registration or purchase row that is unsent and inside its window
Recoverable(row, t) ==
  /\ row.eventType \in {"registration", "purchase"}
  /\ ~row.sentToTracker
  /\ InWindow(row, t)

\* C23: with the sweeper invoked again and again and a tracker that answers
\* 200 again and again, every registration or purchase row that is unsent
\* and inside its 24-hour window is eventually sent (sent = true with a
\* timestamp), however many other unsent rows the window holds; the rows
\* run out of the window or the invocations end otherwise.
C23_Recovery ==
  <>(\/ \A i \in DOMAIN trackingEvents :
          Recoverable(trackingEvents[i], now)
            => trackingEvents[i].sentToTracker /\ trackingEvents[i].sentAt # NoDate
     \/ Len(postbacks) >= MaxPostbacks)

\* ---------------------------------------------------------------- C24
\* the row trackPurchase creates holds the amount it was called with
C24_CreateStep ==
  \A c \in Calls :
    cpc[c] = "trackCreate" /\ cpc'[c] = "trackSend" /\ loc[c].route = "subscribe" =>
      /\ trackingEvents'[Len(trackingEvents')].eventType = "purchase"
      /\ trackingEvents'[Len(trackingEvents')].amount = invoiceAmount(loc[c].sub)

\* the payout of every request for a purchase row is the stored amount
\* divided by 100
C24_PayoutIsHundredth ==
  \A k \in DOMAIN postbacks :
    trackingEvents[postbacks[k].row].eventType = "purchase" =>
      /\ postbacks[k].query.payout.frac \in 0..99
      /\ postbacks[k].query.payout.whole * 100 + postbacks[k].query.payout.frac
           = trackingEvents[postbacks[k].row].amount

\* C24: trackPurchase called with an integer amount a in minor units stores
\* amount = a unchanged and sends payout = a / 100 (999 gives 9.99); a
\* stored amount is never the amount in major units.
C24_MinorUnitsStored == [](C24_PayoutIsHundredth) /\ [][C24_CreateStep]_vars

\* an invoice of 999 was stored as 999 and sent as 9.99
C24_Witness ==
  \E k \in DOMAIN postbacks :
    /\ trackingEvents[postbacks[k].row].eventType = "purchase"
    /\ trackingEvents[postbacks[k].row].amount = 999
    /\ postbacks[k].query.payout = [whole |-> 9, frac |-> 99]

\* ---------------------------------------------------------------- C25
AdminData == <<users, account, trackingEvents, postbacks, payments, webhookEvents>>
BehindGate == {"admin", "retryNext", "retryUpdate"}

\* a request gets past requireAdmin only while its session user has the
\* admin email
C25_GateStep ==
  \A c \in Calls :
    cpc'[c] \in BehindGate /\ cpc[c] \notin BehindGate =>
      /\ cpc[c] = "requireAdmin"
      /\ loc[c].userId \in DOMAIN account
      /\ account[loc[c].userId].email = AdminEmail

\* a request that is not past the gate changes nothing and is answered
\* with 401 or 403 if it is answered
C25_RefusedStep ==
  \A c \in Calls :
    Moves(c) /\ cpc[c] \notin BehindGate =>
      /\ UNCHANGED AdminData
      /\ cpc'[c] = "done" => cresp'[c].status \in {401, 403}

\* C25: every admin route, PUT /admin/users/:userId/subscription and POST
\* /admin/tracking/retry included, is reached only by a request with a session
\* whose user has the configured admin email when requireAdmin looks the
\* user up; any other request is answered with 401 or 403 and changes no
\* state.
C25_AdminOnly == [][C25_GateStep /\ C25_RefusedStep]_vars

\* one request was refused with 403 and one, of the admin, set a
\* subscription
C25_Witness ==
  \E c \in Calls, d \in Calls :
    /\ cpc[c] = "done" /\ cresp[c].status = 403
    /\ cpc[d] = "done" /\ cresp[d].status = 200 /\ loc[d].route = "admin/subscription"
    /\ \E u \in DOMAIN users : users[u].subscriptionStatus = "active"

\* ---------------------------------------------------------------- C26
\* request r is inside the handler of an event of type t
Handles(r, t) ==
  IF pc[r] \in {"create", "retrieve", "updateUser", "createPayment"}
    THEN EventOf(r).type = t ELSE FALSE

C26_Step ==
  \A r \in Reqs :
    Handles(r, "checkout.session.completed") =>
      LET p == EventOf(r)
          sub == StripeSubs[p.sub]
      IN p.userId # NULL =>
           /\ pc[r] = "updateUser" /\ pc'[r] \in {"createPayment", "mark"} =>
                /\ users'[p.userId] =
                     [subscriptionId |-> sub.id,
                      subscriptionStatus |-> sub.status,
                      subscriptionPlan |->
                        IF sub.price = AnnualPriceId THEN "annual" ELSE "monthly",
                      subscriptionEndDate |-> sub.current_period_end * 1000]
                /\ \A u \in DOMAIN users \ {p.userId} : users'[u] = users[u]
           /\ pc[r] = "createPayment" /\ pc'[r] = "mark" =>
                payments' = Append(payments,
                                   [userId |-> p.userId, stripePaymentId |-> p.pi,
                                    amount |-> p.amount, currency |-> "usd",
                                    status |-> "succeeded", paymentMethod |-> "card",
                                    keitaroSubId |-> p.keitaroSubId])
           /\ pc'[r] = "mark" =>
                \/ p.pi # NULL /\ pc[r] = "createPayment"
                \/ p.pi = NULL /\ pc[r] = "updateUser"
           /\ pc'[r] # pc[r] /\ pc[r] # "createPayment" => payments' = payments

C27_Step ==
  \A r \in Reqs :
    Handles(r, "invoice.payment_failed") /\ pc'[r] # pc[r] =>
      LET u == handlerUserId(EventOf(r))
      IN /\ payments' = payments
         /\ pc'[r] # "createPayment"
         /\ IF pc[r] = "updateUser" /\ pc'[r] = "mark"
              THEN /\ users'[u].subscriptionStatus = "past_due"
                   /\ users'[u].subscriptionId = users[u].subscriptionId
                   /\ users'[u].subscriptionPlan = users[u].subscriptionPlan
                   /\ users'[u].subscriptionEndDate = users[u].subscriptionEndDate
                   /\ \A v \in DOMAIN users \ {u} : users'[v] = users[v]
              ELSE users' = users

\* C27: the invoice failed handler sets subscriptionStatus to 'past_due' for
\* the user named in the subscription's metadata and nothing else: the
\* subscription id, plan and end date stay as they were and no Payment is
\* created.
C27_InvoiceFailed == [][C27_Step]_vars

\* a subscribed user's invoice failed: past_due, with id, plan and end date
\* still those of the subscription
C27_Witness ==
  /\ users["u1"].subscriptionStatus = "past_due"
  /\ users["u1"].subscriptionId = "sub_1"
  /\ users["u1"].subscriptionPlan = "monthly"
  /\ users["u1"].subscriptionEndDate = 5000
  /\ payments = <<>>

\* ---------------------------------------------------------------- C28
\* the Payment of an invoice, with the click id of the subscription
InvoicePayment(p) ==
  [userId |-> StripeSubs[p.sub].userId, stripePaymentId |-> p.pi,
   amount |-> p.amount, currency |-> "usd", status |-> "succeeded",
   paymentMethod |-> "card", keitaroSubId |-> StripeSubs[p.sub].keitaroSubId]

SweeperStep(c) ==
  /\ cpc'[c] # cpc[c] \/ loc'[c] # loc[c]
  /\ \/ cpc[c] \in {"retryNext", "retryUpdate"}
     \/ cpc[c] = "idle" /\ cpc'[c] = "retryNext"

C29_Step ==
  \A c \in Calls :
    SweeperStep(c) =>
      IF cpc[c] = "retryUpdate"
        THEN /\ loc[c].outcome = HttpResponse(200)
             /\ trackingEvents' =
                  [trackingEvents EXCEPT ![Head(loc[c].batch)].sentToTracker = TRUE,
                                         ![Head(loc[c].batch)].sentAt = now]
        ELSE trackingEvents' = trackingEvents

\* C29: the sweeper writes to a row only after the postback it re-sent for
\* that row succeeded, and then sets sent = true and the timestamp only; a
\* row whose retry failed or was skipped, and a row that was not selected,
\* has every field unchanged after the invocation.
C29_WritesOnlyOnSuccess == [][C29_Step]_vars

\* an invocation re-sent two rows: the first was delivered and is marked,
\* the second failed and is as it was
C29_Witness ==
  /\ \E c \in Calls : cpc[c] = "done" /\ loc[c].route = "retry"
  /\ Len(trackingEvents) = 2
  /\ trackingEvents[1].sentToTracker /\ trackingEvents[1].sentAt = now
  /\ trackingEvents[2] = purchaseRow("u1", "click_a", 999, InvoiceCurrency, FreshDate)
  /\ \E k \in DOMAIN postbacks : postbacks[k].row = 1
  /\ \E k \in DOMAIN postbacks : postbacks[k].row = 2

\* ---------------------------------------------------------------- C30
\* C30: once sent = true and the timestamp are set on a row, no interleaving
\* of trackRegistration / trackPurchase in flight with retryFailedPostbacks
\* sets sent back to false or clears the timestamp.
C30_SentIsMonotonic ==
  [][\A i \in DOMAIN trackingEvents :
       trackingEvents[i].sentToTracker =>
         /\ trackingEvents'[i].sentToTracker
         /\ trackingEvents'[i].sentAt # NoDate]_vars

\* ---------------------------------------------------------------- C31
\* call c has had the postback for row i answered with 200 and has not yet
\* written the result
HoldsDelivery(c, i) ==
  \/ cpc[c] = "trackUpdate" /\ loc[c].success /\ loc[c].row = i
  \/ cpc[c] = "retryUpdate" /\ Head(loc[c].batch) = i

\* C31: no conversion is reported twice: a postback for a row is delivered
\* only while the row is not marked sent and no other call holds a delivery
\* for the same row, in every interleaving of the original attempt with
\* concurrent or overlapping sweeps.
C31_DeliveredOnce ==
  [][\A c \in Calls : \A i \in DOMAIN trackingEvents :
       HoldsDelivery(c, i)' /\ ~HoldsDelivery(c, i) =>
         /\ ~trackingEvents[i].sentToTracker
         /\ \A d \in Calls \ {c} : ~HoldsDelivery(d, i)]_vars

\* ---------------------------------------------------------------- C32
\* the handler of an event with payload p writes to the row of user u
WritesUser(p, u) ==
  /\ handlerFor(p.type) \in {"handleCheckoutSessionCompleted", "handleSubscriptionUpdate",
                             "handleSubscriptionDeleted", "handleInvoicePaymentFailed"}
  /\ handlerUserId(p) = u

\* the events whose row carries no error: handled without an exception, or
\* still being handled
Unfailed == {webhookEvents[i].eventId : i \in {j \in DOMAIN webhookEvents :
                                                  webhookEvents[j].error = NULL}}

\* C32: handler effects are all-or-nothing: an event whose handler threw
\* leaves the User and Payment tables as they were, so every user row that
\* differs from its initial content, and every Payment row, is the work of
\* an event whose row carries no error.
C32_AllOrNothing ==
  /\ \A u \in DOMAIN users :
       users[u] # NewUser => \E e \in Unfailed : WritesUser(catalog[e], u)
  /\ \A k \in DOMAIN payments :
       \E e \in Unfailed : catalog[e].pi = payments[k].stripePaymentId

\* ---------------------------------------------------------------- C33
\* the handler of an event with payload p reaches prisma.payment.create
Pays(p) ==
  /\ p.pi # NULL
  /\ \/ handlerFor(p.type) = "handleCheckoutSessionCompleted" /\ p.userId # NULL
     \/ /\ handlerFor(p.type) = "handleInvoicePaymentSucceeded"
        /\ p.sub # NULL
        /\ handlerUserId(p) # NULL

\* the rows of processed events whose handler paid with payment intent pi
\* and threw nothing
PaidWith(pi) ==
  {i \in DOMAIN webhookEvents :
     /\ webhookEvents[i].processed
     /\ webhookEvents[i].error = NULL
     /\ Pays(catalog[webhookEvents[i].eventId])
     /\ catalog[webhookEvents[i].eventId].pi = pi}

\* C33: there is at most one Payment row per payment-intent id: of the
\* events carrying one payment intent at most one ends without an error, and
\* a request whose payment insert hit the unique index created no Payment
\* row and left its event processed with a non-null error.
C33_OnePaymentPerIntent ==
  /\ \A i, j \in DOMAIN payments :
       payments[i].stripePaymentId = payments[j].stripePaymentId => i = j
  /\ \A k \in DOMAIN payments : Cardinality(PaidWith(payments[k].stripePaymentId)) <= 1
  /\ \A r \in Reqs :
       pc[r] = "done" /\ created[r] /\ result[r] = Threw(UniqueStripePaymentId) =>
         \E i \in DOMAIN webhookEvents :
           /\ webhookEvents[i].eventId = rq[r].eventId
           /\ webhookEvents[i].processed
           /\ webhookEvents[i].error = UniqueStripePaymentId

\* a checkout and an invoice with the same payment intent were both handled:
\* one Payment row, the later event failed on the unique index
C33_Witness ==
  /\ Len(payments) = 1
  /\ \E r \in Reqs :
       /\ pc[r] = "done"
       /\ result[r] = Threw(UniqueStripePaymentId)
       /\ catalog[rq[r].eventId].pi = payments[1].stripePaymentId
  /\ \E i, j \in DOMAIN webhookEvents :
       /\ webhookEvents[i].processed /\ webhookEvents[i].error = NULL
       /\ webhookEvents[j].processed /\ webhookEvents[j].error # NULL
       /\ catalog[webhookEvents[i].eventId].pi = catalog[webhookEvents[j].eventId].pi
       /\ catalog[webhookEvents[i].eventId].pi # NULL

\* ---------------------------------------------------------------- C34
\* C34: no privilege escalation to admin: a user whose requests requireAdmin
\* refuses stays refused, whatever requests are served.
C34_NoEscalation ==
  [][\A u \in DOMAIN account \cap DOMAIN account' :
       ~requireAdmin(account, u) => ~requireAdmin(account', u)]_vars

\* ---------------------------------------------------------------- C35
\* the WebhookEvent row request r inserted
RowOf(r) == {i \in DOMAIN webhookEvents : webhookEvents[i].eventId = rq[r].eventId}

\* C35: every WebhookEvent row handleWebhook inserted is marked processed
\* once the request ran to completion, whether the handler returned, did
\* nothing or threw: no completed request leaves its row unprocessed.
C35_CompletedIsProcessed ==
  \A r \in Reqs :
    pc[r] = "done" /\ created[r] =>
      /\ RowOf(r) # {}
      /\ \A i \in RowOf(r) : webhookEvents[i].processed

\* two requests ran to completion on rows they inserted: the handler of one
\* returned, the handler of the other threw
C35_Witness ==
  \E r, q \in Reqs :
    /\ pc[r] = "done" /\ created[r] /\ result[r] = Returned
    /\ handlerCalls[rq[r].eventId] > 0
    /\ pc[q] = "done" /\ created[q] /\ result[q].kind = "threw"
    /\ \A i \in RowOf(r) \cup RowOf(q) : webhookEvents[i].processed

\* ---------------------------------------------------------------- C36
\* the tokens a logout has answered 200 for
LoggedOut ==
  {loc[c].token : c \in {d \in AuthCalls : /\ cpc[d] = "done"
                                            /\ loc[d].route = "logout"
                                            /\ cresp[d].status = 200}}

\* request c passes authenticate() in this step
Admitted(c) ==
  /\ cpc[c] = "idle"
  /\ \/ cpc'[c] = "sessionDelete"
     \/ cpc'[c] = "done" /\ loc'[c].route = "me" /\ cresp'[c].status # 401

\* no request is admitted with a token that was logged out before it arrived
C36_LoggedOutStaysOut ==
  [][\A c \in AuthCalls : Admitted(c) => loc'[c].token \notin LoggedOut]_vars

\* no request is admitted more than seven days after its token was issued
C36_ExpiredStaysOut ==
  [][\A c \in AuthCalls : Admitted(c) => now <= loc'[c].token.iat + SessionLife]_vars

\* a session leaves the table only through the logout of its own token
C36_OthersUnaffected ==
  [][\A s \in sessions \ sessions' :
       \E c \in AuthCalls : cpc[c] = "sessionDelete" /\ loc[c].token = s.token]_vars

\* C36: after a successful logout of a token every later request with that
\* token is refused by authenticate(), a session past its expiry never
\* authenticates, and the logout leaves the sessions of the other tokens of
\* the user in place.
C36_LogoutIsFinal ==
  C36_LoggedOutStaysOut /\ C36_ExpiredStaysOut /\ C36_OthersUnaffected

\* ---------------------------------------------------------------- C37
\* the registrations whose prisma.user.create went through
Registered ==
  {c \in AuthCalls : /\ loc[c].route = "register"
                     /\ \/ cpc[c] \in {"createSession", "trackLookup"}
                        \/ cpc[c] = "done" /\ cresp[c].status = 201}

\* the registrations refused because the email is taken
Refused ==
  {c \in AuthCalls : /\ loc[c].route = "register"
                     /\ cpc[c] = "done"
                     /\ cresp[c].status = 400
                     /\ cresp[c].body \in {UserExists, UniqueEmail}}

\* the email is the one of a User row
Taken(email) == \E u \in DOMAIN account : account[u].email = email

\* no two users share an email; every user beyond the initial ones is the
\* work of exactly one registration; a registration is refused only for an
\* email that is taken, and no other registration is answered with an error
C37_OnePerEmail ==
  /\ \A u, v \in DOMAIN account : account[u].email = account[v].email => u = v
  /\ Cardinality(Registered) = Cardinality(DOMAIN account \ ExistingUsers)
  /\ \A c \in Refused : Taken(loc[c].email)
  /\ \A c \in AuthCalls :
       loc[c].route = "register" /\ cpc[c] = "done" => c \in Registered \cup Refused

\* a registration that reaches its findUnique or its user.create while the
\* email is taken is refused in that step, writes no user and no session and
\* starts no registration tracking
C37_RefusedStep ==
  \A c \in AuthCalls :
    /\ loc'[c].route = "register"
    /\ cpc[c] \in {"idle", "createUser"}
    /\ cpc'[c] # cpc[c]
    /\ Taken(loc'[c].email)
    => /\ c \in Refused'
       /\ loc'[c].row = 0
       /\ UNCHANGED <<account, users, sessions, trackingEvents, postbacks>>

\* C37: there is at most one User per email under every interleaving of
\* register calls: a registration for an email that is taken fails with an
\* error, creates no user and no session and triggers no registration
\* tracking, and of two concurrent registrations with one email exactly one
\* succeeds.
C37_UniqueEmail == [](C37_OnePerEmail) /\ [][C37_RefusedStep]_vars

\* two registrations with one email both passed the findUnique: one was
\* answered 201, the other failed on the unique index, one user holds the email
C37_Witness ==
  \E c, d \in AuthCalls :
    /\ c \in Refused /\ cresp[c].body = UniqueEmail
    /\ d \in Registered /\ cpc[d] = "done" /\ cresp[d].status = 201
    /\ Cardinality({u \in DOMAIN account : account[u].email = loc[c].email}) = 1
    /\ Cardinality(DOMAIN account) = Cardinality(ExistingUsers) + 1
====
